---------------------------- MODULE Spec2Model ----------------------------
(***************************************************************************)
(* Order-book reconstruction of backtest/bots/l2l3_orderbook:              *)
(*   bus.py                 EventBus (asyncio.Queue hand-off)              *)
(*   exchanges/binance_l2.py  diff-stream ("L2") book builder              *)
(*   exchanges/coinbase_l3.py order-stream ("L3") book builder             *)
(*   storage.py, run.py     sink and orchestrator                          *)
(*                                                                         *)
(* Three views of the program are specified.                               *)
(*   SpecBus  the asyncio tasks around the EventBus: the receiver, the     *)
(*            builder's live loop, the publish tasks _emit_state spawns,   *)
(*            and the sink. A step runs the task at the head of the event  *)
(*            loop's ready queue up to its next suspension.                *)
(*   SpecL2   one BinanceL2BookBuilder: start/_run_once, one delta per     *)
(*            step, with the book maps and the update-id cursor.           *)
(*   SpecL3   one CoinbaseL3BookBuilder: start/_run_once, one message per  *)
(*            step, with the order and level maps, and the REST fallback.  *)
(* Prices are in ticks of 0.1 (10.0 is 100, 10.5 is 105).                  *)
(***************************************************************************)
EXTENDS Integers, Sequences, FiniteSets, TLC

VARIABLES
  \* ---- SpecBus: event loop and EventBus
  ready,        \* the event loop's ready queue (FIFO of task handles)
  queue,        \* EventBus._queue: the events held by the asyncio.Queue
  putters,      \* publish tasks suspended in Queue.put (bus at capacity)
  sink_wait,    \* the sink is suspended in EventBus.next() on an empty bus
  b_wait,       \* the builder is suspended in event_q.get()
  r_wait,       \* the receiver is suspended on the websocket
  inbox,        \* messages the receiver has put on event_q, not yet consumed
  arrived,      \* messages received from the stream so far
  emit_seq,     \* BookStates emitted so far (event n is the n-th emitted)
  completed,    \* events whose publish() has completed, in completion order
  delivered,    \* events returned by next(), in order
  \* ---- SpecL2: BinanceL2BookBuilder
  l2_pc,          \* where start/_run_once stands
  bids,           \* self.bids: price -> quantity
  asks,           \* self.asks: price -> quantity
  book_update_id, \* self.book_update_id, the last applied update id
  resync_count,   \* self._resync_count
  emit_full,      \* self.emit_full
  first_u,        \* first_u: {} is None, {U} the first message's start-id
  event_q,        \* messages on event_q (raw: their fields are read, and
                  \* drawn, when the builder parses them)
  buffered,       \* buffered messages the replay loop has not reached yet
  applied,        \* the replay loop's flag
  l2_U,           \* U of the delta parsed last
  l2_u,           \* u of the delta parsed last
  l2_body,        \* the "b" and "a" entries _apply_event read last
  l2_emitted,     \* the BookState the last builder step handed to bus.publish
  \* ---- SpecL3: CoinbaseL3BookBuilder
  l3_pc,             \* where start/_run_once/_run_rest_only stands
  orders,            \* self.orders: order_id -> side, price, size
  levels,            \* self.levels: side -> (price -> quantity)
  last_sequence,     \* self.last_sequence
  l3_resync_count,   \* self._resync_count
  snapshot_failures, \* self._snapshot_failures
  l3_event_q,        \* messages the receiver has put on event_q
  l3_emitted,        \* the BookState the last builder step handed to bus.publish
  allow_l2_fallback, \* the builder's field of that name, set at construction
  \* ---- SpecL3Feed: the messages of one L3 epoch
  l3_buffered,       \* buffered messages the replay loop has not reached yet
  l3_seq,            \* "sequence" of the message parsed last
  l3_msg,            \* the message _apply_message read last
  \* ---- SpecSink: StorageSink and its RollingParquetWriter
  sink_pc,           \* "next": in bus.next(); "cancelled": the task was cancelled;
                     \* "raised": an exception has left StorageSink.run
  sink_q,            \* book_state events on the bus the sink has not taken yet
  writer_rows,       \* RollingParquetWriter._rows
  bucket_ms,         \* RollingParquetWriter._bucket_ms
  pages,             \* the parquet files of out_dir, by the bucket of their name
  last_flush,        \* StorageSink._last_flush
  now,               \* time.time(), in ticks
  consumed,          \* every row the sink made of an event it took, in order
  flushes,           \* per bucket, the flushes that wrote its page
  sink_fault,        \* what failed in the sink's last pass: "none", "serialize"
                     \* (the row of the event), "read" (read_parquet) or "write"
                     \* (mkdir or to_parquet)
  \* ---- SpecStream: each builder task with the receiver task of its epoch
  st_pc,             \* per venue: where the builder task is
  st_rx,             \* per venue: the receiver task of the epoch
  st_q,              \* per venue: event_q, the kinds of the messages on it
  st_resync,         \* per venue: _resync_count
  st_nframes,        \* per venue: frames the receiver read on this connection
  st_frame,          \* per venue: the kind of the frame the receiver read last
  \* ---- shared
  stop_evt           \* the stop signal run.py hands to every task

busvars == <<ready, queue, putters, sink_wait, b_wait, r_wait, inbox,
             arrived, emit_seq, completed, delivered>>

l2vars == <<l2_pc, bids, asks, book_update_id, resync_count, emit_full,
            first_u, event_q, buffered, applied,
            l2_U, l2_u, l2_body, l2_emitted>>

l3vars == <<l3_pc, orders, levels, last_sequence, l3_resync_count,
            snapshot_failures, l3_event_q, l3_emitted, allow_l2_fallback>>

feedvars == <<l3_buffered, l3_seq, l3_msg>>

sinkvars == <<sink_pc, sink_q, writer_rows, bucket_ms, pages, last_flush, now, consumed,
              flushes, sink_fault>>

streamvars == <<st_pc, st_rx, st_q, st_resync, st_nframes, st_frame>>

vars == <<busvars, l2vars, l3vars, feedvars, sinkvars, streamvars, stop_evt>>

-----------------------------------------------------------------------------
(* Bounds of the model *)

\* EventBus(maxsize): 10_000 in bus.py, scaled down
Capacity == 2
\* stream messages per run of SpecBus
MaxEvents == 4
\* messages event_q holds at a time in SpecL2
MaxPending == 2
\* resyncs after which SpecL2 starts a last epoch
MaxResync == 1
\* resyncs after which SpecL3 starts a last epoch
MaxL3Resync == 2

-----------------------------------------------------------------------------
(* Input domains *)

\* lastUpdateId of a snapshot
SnapIds == {100, 101, 105, 110}

\* prices in ticks: 10.0 and 10.5
Prices == {100, 105}

\* quantities a snapshot or delta entry carries
Qtys == {0, 1, 2}

\* <<U, u>> of a depthUpdate, which covers the update ids U..u: a contiguous
\* stream 95..100, 101, 102..105, 106..110, and ranges that overlap it or
\* leave a hole in it
Ranges == {<<95, 100>>, <<101, 101>>, <<102, 105>>, <<106, 110>>,
           <<100, 101>>, <<101, 105>>, <<105, 110>>}

\* one side of a delta: no entry or one [price, qty] entry
LevelLists == {<<>>} \cup {<<<<p, q>>>> : p \in Prices, q \in Qtys}

\* one side of a snapshot: also both prices, best first or not
SnapLists == LevelLists \cup
  {<<<<t[1], t[3]>>, <<t[2], t[4]>>>> :
     t \in {x \in Prices \X Prices \X (Qtys \ {0}) \X (Qtys \ {0}) : x[1] # x[2]}}

\* the "b" and "a" entries of a delta: at most one entry in all
NoBody == [b |-> <<>>, a |-> <<>>]

DeltaBodies == {NoBody}
  \cup {[b |-> l, a |-> <<>>] : l \in LevelLists \ {<<>>}}
  \cup {[b |-> <<>>, a |-> l] : l \in LevelLists \ {<<>>}}

Snapshots == [lastUpdateId : SnapIds, bids : SnapLists, asks : SnapLists]

-----------------------------------------------------------------------------
(* Sequence helpers *)

Range(s) == {s[i] : i \in 1..Len(s)}

Last(s) == s[Len(s)]

Min(a, b) == IF a <= b THEN a ELSE b

-----------------------------------------------------------------------------
(* SpecBus: task handles *)

RecvTask == [k |-> "recv", n |-> 0]
BuilderTask == [k |-> "builder", n |-> 0]
SinkTask == [k |-> "sink", n |-> 0]
PubTask(n) == [k |-> "pub", n |-> n]

\* the publish tasks created for events a+1 .. b, in creation order
RECURSIVE PubTasks(_, _)
PubTasks(a, b) == IF a >= b THEN <<>> ELSE <<PubTask(a + 1)>> \o PubTasks(a + 1, b)

-----------------------------------------------------------------------------
(* EventBus over asyncio.Queue *)

\* mutant: the capacity test is off by one
BusFull_OffByOne(q) == Len(q) > Capacity

BusFull(q) == Len(q) >= Capacity

\* Queue.put_nowait: append the item (the caller wakes a waiting getter)
BusPutNowait(q, ev) == Append(q, ev)

\* mutant: get returns the newest event
BusGetItem_Newest(q) == Last(q)

\* Queue.get_nowait, the item popped
BusGetItem(q) == Head(q)

\* Queue.get_nowait, the queue left
BusGetRest(q) == Tail(q)

\* EventBus.next() called in a loop that never suspends while the bus holds
\* events (StorageSink.run): every get pops the oldest event and wakes the
\* oldest suspended putter.
RECURSIVE BusDrain(_)
BusDrain(st) ==
  IF st.queue = <<>> THEN st
  ELSE BusDrain([queue |-> BusGetRest(st.queue),
                 got |-> Append(st.got, BusGetItem(st.queue)),
                 putters |-> IF st.putters = <<>> THEN <<>> ELSE Tail(st.putters),
                 woken |-> IF st.putters = <<>> THEN st.woken
                           ELSE Append(st.woken, PubTask(Head(st.putters)))])

-----------------------------------------------------------------------------
(* SpecBus actions *)

InitBusVars ==
  /\ ready = <<SinkTask>>
  /\ queue = <<>>
  /\ putters = <<>>
  /\ sink_wait = FALSE
  /\ b_wait = TRUE
  /\ r_wait = TRUE
  /\ inbox = 0
  /\ arrived = 0
  /\ emit_seq = 0
  /\ completed = <<>>
  /\ delivered = <<>>

\* data arrives on the websocket: the receiver becomes ready
WsData ==
  /\ r_wait
  /\ arrived < MaxEvents
  /\ r_wait' = FALSE
  /\ ready' = Append(ready, RecvTask)
  /\ UNCHANGED <<queue, putters, sink_wait, b_wait, inbox, arrived, emit_seq,
                 completed, delivered, l2vars, l3vars, feedvars, sinkvars,
                 streamvars, stop_evt>>

\* _receiver: puts every message it can read on event_q (the first put wakes
\* the builder), then suspends on the websocket
RunReceiver ==
  /\ ready # <<>>
  /\ Head(ready) = RecvTask
  /\ \E m \in 1..(MaxEvents - arrived) :
       /\ inbox' = inbox + m
       /\ arrived' = arrived + m
  /\ r_wait' = TRUE
  /\ b_wait' = FALSE
  /\ ready' = Tail(ready) \o (IF b_wait THEN <<BuilderTask>> ELSE <<>>)
  /\ UNCHANGED <<queue, putters, sink_wait, emit_seq, completed, delivered, l2vars, l3vars, feedvars, sinkvars, streamvars, stop_evt>>

\* the live loop of _run_once: event_q.get() does not suspend while event_q
\* holds messages; every applied delta ends in _emit_state, which spawns
\* a task for bus.publish and returns; then the builder suspends in get()
RunBuilder ==
  /\ ready # <<>>
  /\ Head(ready) = BuilderTask
  /\ \E j \in 0..inbox :
       /\ emit_seq' = emit_seq + j
       /\ ready' = Tail(ready) \o PubTasks(emit_seq, emit_seq + j)
  /\ inbox' = 0
  /\ b_wait' = TRUE
  /\ UNCHANGED <<queue, putters, sink_wait, r_wait, arrived, completed, delivered, l2vars, l3vars, feedvars, sinkvars, streamvars, stop_evt>>

\* EventBus.publish on its own task: Queue.put suspends while the bus is
\* full, else enqueues and wakes the sink if it waits
RunPublish ==
  /\ ready # <<>>
  /\ Head(ready).k = "pub"
  /\ LET ev == Head(ready).n IN
       IF BusFull(queue)
       THEN /\ putters' = Append(putters, ev)
            /\ ready' = Tail(ready)
            /\ UNCHANGED <<queue, completed, sink_wait>>
       ELSE /\ queue' = BusPutNowait(queue, ev)
            /\ completed' = Append(completed, ev)
            /\ sink_wait' = FALSE
            /\ ready' = Tail(ready) \o (IF sink_wait THEN <<SinkTask>> ELSE <<>>)
            /\ UNCHANGED putters
  /\ UNCHANGED <<b_wait, r_wait, inbox, arrived, emit_seq, delivered, l2vars, l3vars, feedvars, sinkvars, streamvars, stop_evt>>

\* StorageSink.run: takes events until the bus is empty, then suspends
RunSink ==
  /\ ready # <<>>
  /\ Head(ready) = SinkTask
  /\ LET st == BusDrain([queue |-> queue, got |-> <<>>, putters |-> putters,
                         woken |-> <<>>]) IN
       /\ queue' = st.queue
       /\ delivered' = delivered \o st.got
       /\ putters' = st.putters
       /\ ready' = Tail(ready) \o st.woken
  /\ sink_wait' = TRUE
  /\ UNCHANGED <<b_wait, r_wait, inbox, arrived, emit_seq, completed, l2vars, l3vars, feedvars, sinkvars, streamvars, stop_evt>>

NextBus == WsData \/ RunReceiver \/ RunBuilder \/ RunPublish \/ RunSink

-----------------------------------------------------------------------------
(* L2 book maps: a Python dict is a function on the set of its keys *)

EmptyDict == [x \in {} |-> 0]

DictSet(d, p, q) == [x \in DOMAIN d \cup {p} |-> IF x = p THEN q ELSE d[x]]

DictPop(d, p) == [x \in DOMAIN d \ {p} |-> d[x]]

MaxOf(S) == CHOOSE x \in S : \A y \in S : y <= x

MinOf(S) == CHOOSE x \in S : \A y \in S : x <= y

\* sorted(d.items(), key=price, reverse=True)
RECURSIVE ItemsDesc(_)
ItemsDesc(d) ==
  IF DOMAIN d = {} THEN <<>>
  ELSE LET m == MaxOf(DOMAIN d) IN <<<<m, d[m]>>>> \o ItemsDesc(DictPop(d, m))

\* sorted(d.items(), key=price)
RECURSIVE ItemsAsc(_)
ItemsAsc(d) ==
  IF DOMAIN d = {} THEN <<>>
  ELSE LET m == MinOf(DOMAIN d) IN <<<<m, d[m]>>>> \o ItemsAsc(DictPop(d, m))

\* s[:n]
Take(s, n) == SubSeq(s, 1, Min(n, Len(s)))

\* BinanceL2BookBuilder.top_n (run.py passes --top-n, default 10)
TopN == 1

\* _load_snapshot, one side: {price: qty for price, qty in side if qty > 0}
RECURSIVE LoadSide(_, _)
LoadSide(d, side) ==
  IF side = <<>> THEN d
  ELSE LoadSide(IF Head(side)[2] > 0 THEN DictSet(d, Head(side)[1], Head(side)[2])
                ELSE d,
                Tail(side))

\* mutant: qty 0 is stored like any other quantity
RECURSIVE ApplySide_KeepsZero(_, _)
ApplySide_KeepsZero(d, side) ==
  IF side = <<>> THEN d
  ELSE ApplySide_KeepsZero(DictSet(d, Head(side)[1], Head(side)[2]), Tail(side))

\* mutant: a nonzero qty is added to the quantity the price has
RECURSIVE ApplySide_AddsQty(_, _)
ApplySide_AddsQty(d, side) ==
  IF side = <<>> THEN d
  ELSE LET p == Head(side)[1]
           q == Head(side)[2]
       IN ApplySide_AddsQty(IF q = 0 THEN DictPop(d, p)
                            ELSE DictSet(d, p, (IF p \in DOMAIN d THEN d[p] ELSE 0) + q),
                            Tail(side))

\* _apply_event, one side: qty 0 pops the price, any other qty replaces it
RECURSIVE ApplySide(_, _)
ApplySide(d, side) ==
  IF side = <<>> THEN d
  ELSE ApplySide(IF Head(side)[2] = 0 THEN DictPop(d, Head(side)[1])
                 ELSE DictSet(d, Head(side)[1], Head(side)[2]),
                 Tail(side))

NoState == [kind |-> "none"]

\* _top_levels / the emit_full branch of _emit_state
L2EmitBids(bs, full) == IF full THEN ItemsDesc(bs) ELSE Take(ItemsDesc(bs), TopN)

L2EmitAsks(as, full) == IF full THEN ItemsAsc(as) ELSE Take(ItemsAsc(as), TopN)

\* _emit_state: the BookState handed to bus.publish, NoState when a side
\* is empty
L2EmitState(bs, as, full) ==
  LET b == L2EmitBids(bs, full)
      a == L2EmitAsks(as, full)
  IN IF b = <<>> \/ a = <<>> THEN NoState
     ELSE [venue |-> "binance", kind |-> "L2",
           best_bid |-> b[1][1], best_ask |-> a[1][1],
           bids |-> b, asks |-> a]

-----------------------------------------------------------------------------
(* The sequence rule of _run_once, one operator per loop *)

\* mutant: a delta past the cursor is left out without a gap condition
ClassifyReplay_SkipsGap(id, U, u) ==
  IF u <= id THEN "skip"
  ELSE IF U <= id + 1 /\ id + 1 <= u THEN "apply"
  ELSE "ignore"

\* mutant: only a delta that starts right after the cursor is taken as
\* bridging
ClassifyReplay_StrictStart(id, U, u) ==
  IF u <= id THEN "skip"
  ELSE IF U = id + 1 THEN "apply"
  ELSE "gap"

\* buffered replay (lines 97-107)
ClassifyReplay(id, U, u) ==
  IF u <= id THEN "skip"
  ELSE IF U <= id + 1 /\ id + 1 <= u THEN "apply"
  ELSE IF U > id + 1 THEN "gap"
  ELSE "ignore"

\* mutant: any delta that ends past the cursor is taken as bridging
ClassifyBridge_AnyNewer(id, U, u) ==
  IF u <= id THEN "skip" ELSE "apply"

\* wait for the first bridging delta (lines 109-121)
ClassifyBridge(id, U, u) ==
  IF u <= id THEN "skip"
  ELSE IF U <= id + 1 /\ id + 1 <= u THEN "apply"
  ELSE IF U > id + 1 THEN "gap"
  ELSE "ignore"

\* mutant: a delta ending at the cursor is not taken as stale
ClassifyLive_StaleOffByOne(id, U, u) ==
  IF u < id THEN "skip"
  ELSE IF U > id + 1 THEN "gap"
  ELSE "apply"

\* live consumption (lines 123-133)
ClassifyLive(id, U, u) ==
  IF u <= id THEN "skip"
  ELSE IF U > id + 1 THEN "gap"
  ELSE "apply"

\* `while not stop_evt.is_set()` at the top of the live loop; when it ends
\* _run_once returns and start's own loop ends too
LiveTop(stop) == IF stop THEN "done" ELSE "live"

-----------------------------------------------------------------------------
(* SpecL2 actions *)

InitL2Vars ==
  /\ l2_pc = "start"
  /\ bids = EmptyDict
  /\ asks = EmptyDict
  /\ book_update_id = 0
  /\ resync_count = 0
  /\ emit_full \in BOOLEAN
  /\ first_u = {}
  /\ event_q = 0
  /\ buffered = 0
  /\ applied = FALSE
  /\ l2_U = 0
  /\ l2_u = 0
  /\ l2_body = NoBody
  /\ l2_emitted = NoState

\* the locals of _run_once die with the epoch
EpochLocalsReset ==
  /\ first_u' = {}
  /\ event_q' = 0
  /\ buffered' = 0
  /\ applied' = FALSE
  /\ l2_U' = 0
  /\ l2_u' = 0
  /\ l2_body' = NoBody

\* an exception leaves _run_once: start counts a resync and sleeps
EpochFails ==
  /\ resync_count' = resync_count + 1
  /\ l2_pc' = "backoff"
  /\ EpochLocalsReset

\* start: the loop test, then _run_once up to the open connection
L2Start ==
  /\ UNCHANGED <<busvars, l3vars, feedvars, sinkvars, streamvars>>
  /\ l2_pc = "start"
  /\ IF stop_evt
     THEN /\ l2_pc' = "done"
          /\ UNCHANGED <<bids, asks, book_update_id, resync_count>>
          /\ EpochLocalsReset
     ELSE /\ bids' = EmptyDict
          /\ asks' = EmptyDict
          /\ book_update_id' = 0
          /\ \/ /\ l2_pc' = "wait_first"
                /\ EpochLocalsReset
                /\ UNCHANGED resync_count
             \/ EpochFails
  /\ l2_emitted' = NoState
  /\ UNCHANGED <<emit_full, stop_evt>>

\* _receiver while the builder polls first_u: a depthUpdate is put on
\* event_q, and the first one sets first_u
L2Receive ==
  /\ UNCHANGED <<busvars, l3vars, feedvars, sinkvars, streamvars>>
  /\ l2_pc = "wait_first"
  /\ event_q < MaxPending
  /\ event_q' = event_q + 1
  /\ IF first_u = {}
     THEN \E r \in Ranges : first_u' = {r[1]}
     ELSE UNCHANGED first_u
  /\ UNCHANGED <<l2_pc, bids, asks, book_update_id, resync_count, emit_full,
                 stop_evt, buffered, applied, l2_U, l2_u, l2_body, l2_emitted>>

\* the wait for first_u ends; the snapshot is fetched (again while it is
\* older than first_u) and loaded, and event_q is drained into buffered
L2Snapshot ==
  /\ UNCHANGED <<busvars, l3vars, feedvars, sinkvars, streamvars>>
  /\ l2_pc = "wait_first"
  /\ first_u # {} \/ stop_evt
  /\ \/ /\ l2_pc' = "start"
        /\ EpochLocalsReset
        /\ UNCHANGED <<bids, asks, book_update_id>>
     \/ \E snap \in Snapshots :
          /\ \A f \in first_u : snap.lastUpdateId >= f
          /\ bids' = LoadSide(EmptyDict, snap.bids)
          /\ asks' = LoadSide(EmptyDict, snap.asks)
          /\ book_update_id' = snap.lastUpdateId
          /\ buffered' = event_q
          /\ event_q' = 0
          /\ applied' = FALSE
          /\ l2_pc' = IF event_q = 0 THEN "bridge" ELSE "replay"
          /\ UNCHANGED <<first_u, l2_U, l2_u, l2_body>>
  /\ l2_emitted' = NoState
  /\ UNCHANGED <<resync_count, emit_full, stop_evt>>

\* the builder parses the next message: U and u are read. The first message
\* of the epoch is the one whose U the receiver stored in first_u, which is
\* not read again after that.
ParseDelta(r) ==
  /\ \A f \in first_u : r[1] = f
  /\ first_u' = {}
  /\ l2_U' = r[1]
  /\ l2_u' = r[2]

\* _apply_event, then the cursor moves to u
ApplyDelta(r) ==
  \E body \in DeltaBodies :
    /\ bids' = ApplySide(bids, body.b)
    /\ asks' = ApplySide(asks, body.a)
    /\ book_update_id' = r[2]
    /\ l2_body' = body

\* raise RuntimeError("binance_l2_gap"): the delta is not applied
RaiseGap ==
  /\ resync_count' = resync_count + 1
  /\ l2_pc' = "backoff"
  /\ event_q' = 0
  /\ buffered' = 0
  /\ applied' = FALSE
  /\ l2_body' = NoBody
  /\ UNCHANGED <<bids, asks, book_update_id>>

\* one pass of the replay loop over buffered; after the last one the builder
\* goes on to the live loop, or first to the wait for a bridging delta
L2Replay ==
  /\ UNCHANGED <<busvars, l3vars, feedvars, sinkvars, streamvars>>
  /\ l2_pc = "replay"
  /\ buffered > 0
  /\ \E r \in Ranges :
       /\ ParseDelta(r)
       /\ LET out == ClassifyReplay(book_update_id, r[1], r[2]) IN
            CASE out = "apply" ->
                 /\ ApplyDelta(r)
                 /\ applied' = TRUE
                 /\ buffered' = buffered - 1
                 /\ l2_pc' = IF buffered > 1 THEN "replay" ELSE LiveTop(stop_evt)
                 /\ UNCHANGED <<resync_count, event_q>>
              [] out = "gap" -> RaiseGap
              [] OTHER ->
                 /\ buffered' = buffered - 1
                 /\ l2_pc' = IF buffered > 1 THEN "replay"
                             ELSE IF applied THEN LiveTop(stop_evt) ELSE "bridge"
                 /\ l2_body' = NoBody
                 /\ UNCHANGED <<bids, asks, book_update_id, resync_count,
                                event_q, applied>>
  /\ l2_emitted' = NoState
  /\ UNCHANGED <<emit_full, stop_evt>>

\* the wait for the first bridging delta: event_q.get() returns the next
\* message of the stream
L2Bridge ==
  /\ UNCHANGED <<busvars, l3vars, feedvars, sinkvars, streamvars>>
  /\ l2_pc = "bridge"
  /\ \E r \in Ranges :
       /\ ParseDelta(r)
       /\ LET out == ClassifyBridge(book_update_id, r[1], r[2]) IN
            CASE out = "apply" ->
                 /\ ApplyDelta(r)
                 /\ l2_pc' = LiveTop(stop_evt)
                 /\ UNCHANGED <<resync_count, event_q, buffered, applied>>
              [] out = "gap" -> RaiseGap
              [] OTHER ->
                 /\ l2_body' = NoBody
                 /\ UNCHANGED <<l2_pc, bids, asks, book_update_id, resync_count,
                                event_q, buffered, applied>>
  /\ l2_emitted' = NoState
  /\ UNCHANGED <<emit_full, stop_evt>>

\* the live loop: event_q.get() returns the next message of the stream
L2Live ==
  /\ UNCHANGED <<busvars, l3vars, feedvars, sinkvars, streamvars>>
  /\ l2_pc = "live"
  /\ \E r \in Ranges :
       /\ ParseDelta(r)
       /\ LET out == ClassifyLive(book_update_id, r[1], r[2]) IN
            CASE out = "apply" ->
                 /\ ApplyDelta(r)
                 /\ l2_emitted' = L2EmitState(bids', asks', emit_full)
                 /\ l2_pc' = LiveTop(stop_evt)
                 /\ UNCHANGED <<resync_count, event_q, buffered, applied>>
              [] out = "gap" ->
                 /\ RaiseGap
                 /\ l2_emitted' = NoState
              [] OTHER ->
                 /\ l2_pc' = LiveTop(stop_evt)
                 /\ l2_emitted' = NoState
                 /\ l2_body' = NoBody
                 /\ UNCHANGED <<bids, asks, book_update_id, resync_count,
                                event_q, buffered, applied>>
  /\ UNCHANGED <<emit_full, stop_evt>>

\* asyncio.sleep(resync_backoff) is over: back to the loop test of start
L2Backoff ==
  /\ UNCHANGED <<busvars, l3vars, feedvars, sinkvars, streamvars>>
  /\ l2_pc = "backoff"
  /\ resync_count <= MaxResync
  /\ l2_pc' = "start"
  /\ l2_emitted' = NoState
  /\ UNCHANGED <<bids, asks, book_update_id, resync_count, emit_full, stop_evt,
                 first_u, event_q, buffered, applied, l2_U, l2_u, l2_body>>

\* the orchestrator sets the stop signal
L2Stop ==
  /\ UNCHANGED <<busvars, l3vars, feedvars, sinkvars, streamvars>>
  /\ ~stop_evt
  /\ stop_evt' = TRUE
  /\ UNCHANGED <<l2_pc, bids, asks, book_update_id, resync_count, emit_full,
                 first_u, event_q, buffered, applied, l2_U, l2_u, l2_body, l2_emitted>>

NextL2 ==
  L2Start \/ L2Receive \/ L2Snapshot \/ L2Replay \/ L2Bridge \/ L2Live
    \/ L2Backoff \/ L2Stop

-----------------------------------------------------------------------------
(* CoinbaseL3BookBuilder: input domains *)

\* CoinbaseL3BookBuilder.top_n
L3TopN == 2

\* allow_l2_fallback as run.py leaves it (the default of the dataclass)
DefaultAllowL2Fallback == TRUE

\* l3_order_count of a BookState that carries no order count (None)
None == -1

\* `self._snapshot_failures >= 3`
FallbackAfter == 3

OrderIds == {"o1", "o2"}

\* "sequence" of a stream message in SpecL3: stale, contiguous or past a
\* hole for a snapshot at 10
Seqs == {10, 11, 13}

\* "sequence" of a level-3 snapshot
L3SnapSeqs == {10, 11}

\* sizes a stream message carries ("size", "remaining_size", "new_size"), as
\* decimal strings in tenths: "0", "0.1", "0.3", "0.4"
Sizes == {0, 1, 3, 4}

\* one side of a level-3 snapshot: no order or one [price, size, order_id]
L3SnapSide(id) == {<<>>} \cup {<<<<p, z, id>>>> : p \in Prices, z \in Sizes \ {0}}

L3Snapshots == [sequence : L3SnapSeqs, bids : L3SnapSide("o1"), asks : L3SnapSide("o2")]

\* a stream message; order_id is maker_order_id for a match, size is new_size
\* for a change; the fields its type does not read are fixed
Msg(t, o, sd, p, z) == [type |-> t, order_id |-> o, side |-> sd, price |-> p, size |-> z]

L3Msgs ==
  {Msg("received", "o1", "buy", 100, 0)}
  \cup {Msg("open", o, sd, p, z) :
          o \in OrderIds, sd \in {"buy", "sell"}, p \in Prices, z \in Sizes}
  \cup {Msg("match", o, "buy", 100, z) : o \in OrderIds, z \in Sizes}
  \cup {Msg("done", o, "buy", 100, 0) : o \in OrderIds}
  \cup {Msg("change", o, "buy", 100, z) : o \in OrderIds, z \in Sizes}

\* one side of the level-2 REST book the fallback polls: up to two
\* [price, size] rows, in the order the response lists them
RestSides ==
  LET Rows == {<<p, z>> : p \in Prices, z \in Sizes \ {0}}
  IN {<<>>} \cup {<<r>> : r \in Rows} \cup {<<r1, r2>> : r1 \in Rows, r2 \in Rows}

-----------------------------------------------------------------------------
(* Python float (IEEE binary64) as the L3 builder computes with it. Every    *)
(* size the model meets is below 4.0 and a whole number of units of 2^-56;  *)
(* <<hi, lo>> stands for hi * 2^28 + lo such units. A sum or difference is  *)
(* formed exactly and then rounded to 53 significant bits, ties to even.    *)

Limb == 2^28

FZero == <<0, 0>>

RECURSIVE BitLen(_)
BitLen(h) == IF h = 0 THEN 0 ELSE 1 + BitLen(h \div 2)

\* round hi * 2^28 + lo to the nearest binary64
FRound(h, l) ==
  LET e == IF BitLen(h) > 25 THEN BitLen(h) - 25 ELSE 0
      m == 2^e
      r == l % m
      up == 2 * r > m \/ (2 * r = m /\ (l \div m) % 2 = 1)
      l2 == IF up THEN l - r + m ELSE l - r
  IN IF l2 >= Limb THEN <<h + 1, l2 - Limb>> ELSE <<h, l2>>

\* a <= b, a < b
FLe(a, b) == a[1] < b[1] \/ (a[1] = b[1] /\ a[2] <= b[2])

FLt(a, b) == a[1] < b[1] \/ (a[1] = b[1] /\ a[2] < b[2])

\* a + b of real numbers, not rounded
XAdd(a, b) ==
  IF a[2] + b[2] >= Limb THEN <<a[1] + b[1] + 1, a[2] + b[2] - Limb>>
  ELSE <<a[1] + b[1], a[2] + b[2]>>

\* a + b
FAdd(a, b) == FRound(XAdd(a, b)[1], XAdd(a, b)[2])

\* a - b, for a >= b
FSub(a, b) ==
  IF a[2] < b[2] THEN FRound(a[1] - b[1] - 1, a[2] - b[2] + Limb)
  ELSE FRound(a[1] - b[1], a[2] - b[2])

\* max(0.0, a - b)
FSubMax0(a, b) == IF FLe(b, a) THEN FSub(a, b) ELSE FZero

\* float(s) of the decimal string of t tenths
FloatOf(t) ==
  CASE t = 0 -> FZero
    [] t = 1 -> <<26843545, 161061274>>
    [] t = 3 -> <<80530636, 214748364>>
    [] t = 4 -> <<107374182, 107374184>>

-----------------------------------------------------------------------------
(* CoinbaseL3BookBuilder: the book, as [orders, levels] *)

\* d.get(k, default)
DictGet(d, k, default) == IF k \in DOMAIN d THEN d[k] ELSE default

\* mutant: the epoch starts from a book that holds a bid level
EmptyL3Book_Stale ==
  [orders |-> EmptyDict, levels |-> [buy |-> (100 :> FloatOf(1)), sell |-> EmptyDict]]

EmptyL3Book == [orders |-> EmptyDict, levels |-> [buy |-> EmptyDict, sell |-> EmptyDict]]

\* _add_order
AddOrder(st, id, side, price, size) ==
  [orders |-> DictSet(st.orders, id, [side |-> side, price |-> price, size |-> size]),
   levels |-> [st.levels EXCEPT
                 ![side] = DictSet(@, price, FAdd(DictGet(@, price, FZero), size))]]

\* _remove_order that forgets the price level
RemoveOrder_KeepsLevel(st, id) ==
  IF id \notin DOMAIN st.orders THEN st
  ELSE [orders |-> DictPop(st.orders, id), levels |-> st.levels]

\* _remove_order
RemoveOrder(st, id) ==
  IF id \notin DOMAIN st.orders THEN st
  ELSE LET order == st.orders[id]
           level == st.levels[order.side]
           cur == DictGet(level, order.price, FZero)
       IN [orders |-> DictPop(st.orders, id),
           levels |-> [st.levels EXCEPT
                         ![order.side] = IF FLe(cur, order.size)
                                         THEN DictPop(level, order.price)
                                         ELSE DictSet(level, order.price,
                                                      FSub(cur, order.size))]]

\* _apply_message, the "match" branch
ApplyMatch(st, msg) ==
  IF msg.order_id \notin DOMAIN st.orders THEN st
  ELSE LET order == st.orders[msg.order_id]
           level == st.levels[order.side]
           trade_size == FloatOf(msg.size)
       IN IF FLe(order.size, trade_size) THEN RemoveOrder(st, msg.order_id)
          ELSE [orders |-> [st.orders EXCEPT
                              ![msg.order_id].size = FSub(order.size, trade_size)],
                levels |-> [st.levels EXCEPT
                              ![order.side] =
                                DictSet(level, order.price,
                                        FSubMax0(DictGet(level, order.price, FZero),
                                                 trade_size))]]

\* the "change" branch that overwrites the level with the new size
ApplyChange_SetsLevel(st, msg) ==
  IF msg.order_id \notin DOMAIN st.orders THEN st
  ELSE IF FLe(FloatOf(msg.size), FZero) THEN RemoveOrder(st, msg.order_id)
  ELSE LET order == st.orders[msg.order_id]
           level == st.levels[order.side]
           new_size == FloatOf(msg.size)
       IN [orders |-> [st.orders EXCEPT ![msg.order_id].size = new_size],
           levels |-> [st.levels EXCEPT
                         ![order.side] = DictSet(level, order.price, new_size)]]

\* _apply_message, the "change" branch
ApplyChange(st, msg) ==
  IF msg.order_id \notin DOMAIN st.orders THEN st
  ELSE IF FLe(FloatOf(msg.size), FZero) THEN RemoveOrder(st, msg.order_id)
  ELSE LET order == st.orders[msg.order_id]
           level == st.levels[order.side]
           new_size == FloatOf(msg.size)
           cur == DictGet(level, order.price, FZero)
       IN [orders |-> [st.orders EXCEPT ![msg.order_id].size = new_size],
           levels |-> [st.levels EXCEPT
                         ![order.side] =
                           DictSet(level, order.price,
                                   IF FLe(order.size, new_size)
                                   THEN FAdd(cur, FSub(new_size, order.size))
                                   ELSE FSubMax0(cur, FSub(order.size, new_size)))]]

\* _apply_message that takes a received message for an open
ApplyMessage_ReceivedOpens(st, msg) ==
  CASE msg.type \in {"received", "open"} ->
         AddOrder(st, msg.order_id, msg.side, msg.price, FloatOf(msg.size))
    [] msg.type = "match" -> ApplyMatch(st, msg)
    [] msg.type = "done" -> RemoveOrder(st, msg.order_id)
    [] msg.type = "change" -> ApplyChange(st, msg)
    [] OTHER -> st

\* _apply_message
ApplyMessage(st, msg) ==
  CASE msg.type = "received" -> st
    [] msg.type = "open" ->
         AddOrder(st, msg.order_id, msg.side, msg.price, FloatOf(msg.size))
    [] msg.type = "match" -> ApplyMatch(st, msg)
    [] msg.type = "done" -> RemoveOrder(st, msg.order_id)
    [] msg.type = "change" -> ApplyChange(st, msg)
    [] OTHER -> st

\* _load_snapshot: every bid, then every ask, through _add_order
RECURSIVE L3LoadSide(_, _, _)
L3LoadSide(st, side, rows) ==
  IF rows = <<>> THEN st
  ELSE L3LoadSide(AddOrder(st, Head(rows)[3], side, Head(rows)[1],
                           FloatOf(Head(rows)[2])),
                  side, Tail(rows))

L3LoadSnapshot(snap) ==
  L3LoadSide(L3LoadSide(EmptyL3Book, "buy", snap.bids), "sell", snap.asks)

\* _emit_state that counts the published levels instead of the orders
L3EmitState_CountsLevels(st) ==
  LET b == Take(ItemsDesc(st.levels.buy), L3TopN)
      a == Take(ItemsAsc(st.levels.sell), L3TopN)
  IN IF b = <<>> \/ a = <<>> THEN NoState
     ELSE [venue |-> "coinbase", kind |-> "L3",
           best_bid |-> b[1][1], best_ask |-> a[1][1],
           bids |-> b, asks |-> a,
           l3_order_count |-> Len(b) + Len(a)]

\* _top_levels and _emit_state: the BookState handed to bus.publish, NoState
\* when a side is empty
L3EmitState(st) ==
  LET b == Take(ItemsDesc(st.levels.buy), L3TopN)
      a == Take(ItemsAsc(st.levels.sell), L3TopN)
  IN IF b = <<>> \/ a = <<>> THEN NoState
     ELSE [venue |-> "coinbase", kind |-> "L3",
           best_bid |-> b[1][1], best_ask |-> a[1][1],
           bids |-> b, asks |-> a,
           l3_order_count |-> Cardinality(DOMAIN st.orders)]

\* _emit_state_l2: the first top_n rows of each side as the response lists
\* them
L3EmitStateL2(rest_bids, rest_asks) ==
  LET Floats(rows) == [i \in 1..Len(rows) |-> <<rows[i][1], FloatOf(rows[i][2])>>]
      top_bids == Floats(Take(rest_bids, L3TopN))
      top_asks == Floats(Take(rest_asks, L3TopN))
  IN IF top_bids = <<>> \/ top_asks = <<>> THEN NoState
     ELSE [venue |-> "coinbase", kind |-> "L2",
           best_bid |-> top_bids[1][1], best_ask |-> top_asks[1][1],
           bids |-> top_bids, asks |-> top_asks,
           l3_order_count |-> None]

\* mutant: a message at or before the cursor is applied again
ClassifyL3Live_AppliesStale(last, seq) ==
  IF seq > last + 1 THEN "gap" ELSE "apply"

\* the live loop with the gap test one sequence number late
ClassifyL3Live_GapOffByOne(last, seq) ==
  IF seq <= last THEN "skip"
  ELSE IF seq > last + 2 THEN "gap"
  ELSE "apply"

\* live consumption (lines 92-99)
ClassifyL3Live(last, seq) ==
  IF seq <= last THEN "skip"
  ELSE IF seq > last + 1 THEN "gap"
  ELSE "apply"

-----------------------------------------------------------------------------
(* SpecL3 actions *)

InitL3Vars ==
  /\ l3_pc = "start"
  /\ orders = EmptyDict
  /\ levels = EmptyL3Book.levels
  /\ last_sequence = 0
  /\ l3_resync_count = 0
  /\ snapshot_failures = 0
  /\ l3_event_q = 0
  /\ l3_emitted = NoState

\* an exception leaves _run_once: the receiver is cancelled, start counts a
\* resync and sleeps
L3EpochFails ==
  /\ l3_resync_count' = l3_resync_count + 1
  /\ l3_pc' = "backoff"
  /\ l3_event_q' = 0

\* start: the loop test, then _run_once up to the subscription and the
\* creation of the receiver task
L3Start ==
  /\ UNCHANGED <<busvars, l2vars, feedvars, sinkvars, streamvars, allow_l2_fallback>>
  /\ l3_pc = "start"
  /\ IF stop_evt
     THEN /\ l3_pc' = "done"
          /\ UNCHANGED <<orders, levels, last_sequence, l3_resync_count, l3_event_q>>
     ELSE /\ orders' = EmptyDict
          /\ levels' = EmptyL3Book.levels
          /\ last_sequence' = 0
          /\ \/ /\ l3_pc' = "fetch"
                /\ l3_event_q' = 0
                /\ UNCHANGED l3_resync_count
             \/ L3EpochFails
  /\ l3_emitted' = NoState
  /\ UNCHANGED <<snapshot_failures, stop_evt>>

\* a builder that never degrades
FallsBack_Never(allow, failures) == FALSE

\* the test after a failed snapshot fetch (line 68)
FallsBack(allow, failures) == allow /\ failures >= FallbackAfter

\* _fetch_snapshot (a blocking call), then either the failure branch or
\* _load_snapshot, the drain of event_q and the replay of what was drained.
\* No suspension point lies between create_task(_receiver) and the drain, so
\* the receiver has put nothing on event_q and there is nothing to replay.
L3Snapshot ==
  /\ UNCHANGED <<busvars, l2vars, feedvars, sinkvars, streamvars, allow_l2_fallback>>
  /\ l3_pc = "fetch"
  /\ l3_event_q = 0
  /\ \/ /\ snapshot_failures' = snapshot_failures + 1
        /\ IF FallsBack(allow_l2_fallback, snapshot_failures')
           THEN /\ l3_pc' = "rest_poll"
                /\ UNCHANGED <<l3_resync_count, l3_event_q>>
           ELSE L3EpochFails
        /\ UNCHANGED <<orders, levels, last_sequence>>
     \/ \E snap \in L3Snapshots :
          LET st == L3LoadSnapshot(snap) IN
            /\ orders' = st.orders
            /\ levels' = st.levels
            /\ last_sequence' = snap.sequence
            /\ l3_pc' = LiveTop(stop_evt)
            /\ UNCHANGED <<l3_resync_count, snapshot_failures, l3_event_q>>
  /\ l3_emitted' = NoState
  /\ UNCHANGED stop_evt

\* the live loop: event_q.get() returns the next message of the stream
L3Live ==
  /\ UNCHANGED <<busvars, l2vars, feedvars, sinkvars, streamvars, allow_l2_fallback>>
  /\ l3_pc = "live"
  /\ \E seq \in Seqs :
       LET out == ClassifyL3Live(last_sequence, seq) IN
         CASE out = "apply" ->
              \E msg \in L3Msgs :
                LET st == ApplyMessage([orders |-> orders, levels |-> levels], msg) IN
                  /\ orders' = st.orders
                  /\ levels' = st.levels
                  /\ last_sequence' = seq
                  /\ l3_emitted' = L3EmitState(st)
                  /\ l3_pc' = LiveTop(stop_evt)
                  /\ UNCHANGED <<l3_resync_count, l3_event_q>>
           [] out = "gap" ->
              /\ L3EpochFails
              /\ l3_emitted' = NoState
              /\ UNCHANGED <<orders, levels, last_sequence>>
           [] OTHER ->
              /\ l3_pc' = LiveTop(stop_evt)
              /\ l3_emitted' = NoState
              /\ UNCHANGED <<orders, levels, last_sequence, l3_resync_count, l3_event_q>>
  /\ UNCHANGED <<snapshot_failures, stop_evt>>

\* _run_rest_only, one pass: the loop test, _fetch_snapshot_l2, and
\* _emit_state_l2 when the fetch returned a book; then the sleep begins.
\* When the loop ends _run_once returns, and start's own loop ends too.
L3RestPoll ==
  /\ UNCHANGED <<busvars, l2vars, feedvars, sinkvars, streamvars, allow_l2_fallback>>
  /\ l3_pc = "rest_poll"
  /\ IF stop_evt
     THEN /\ l3_pc' = "done"
          /\ l3_emitted' = NoState
          /\ l3_event_q' = 0
     ELSE /\ l3_pc' = "rest_sleep"
          /\ \/ l3_emitted' = NoState
             \/ \E rest_bids \in RestSides, rest_asks \in RestSides :
                  l3_emitted' = L3EmitStateL2(rest_bids, rest_asks)
          /\ UNCHANGED l3_event_q
  /\ UNCHANGED <<orders, levels, last_sequence, l3_resync_count,
                 snapshot_failures, stop_evt>>

\* asyncio.sleep(1.0) of _run_rest_only is over
L3RestWake ==
  /\ UNCHANGED <<busvars, l2vars, feedvars, sinkvars, streamvars, allow_l2_fallback>>
  /\ l3_pc = "rest_sleep"
  /\ l3_pc' = "rest_poll"
  /\ l3_emitted' = NoState
  /\ UNCHANGED <<orders, levels, last_sequence, l3_resync_count,
                 snapshot_failures, l3_event_q, stop_evt>>

\* _receiver while the fallback sleeps: the message is put on event_q, which
\* nothing reads any more
L3Receive ==
  /\ UNCHANGED <<busvars, l2vars, feedvars, sinkvars, streamvars, allow_l2_fallback>>
  /\ l3_pc = "rest_sleep"
  /\ l3_event_q < MaxPending
  /\ l3_event_q' = l3_event_q + 1
  /\ UNCHANGED <<l3_pc, orders, levels, last_sequence, l3_resync_count,
                 snapshot_failures, l3_emitted, stop_evt>>

\* asyncio.sleep(resync_backoff) is over: back to the loop test of start
L3Backoff ==
  /\ UNCHANGED <<busvars, l2vars, feedvars, sinkvars, streamvars, allow_l2_fallback>>
  /\ l3_pc = "backoff"
  /\ l3_resync_count <= MaxL3Resync
  /\ l3_pc' = "start"
  /\ l3_emitted' = NoState
  /\ UNCHANGED <<orders, levels, last_sequence, l3_resync_count,
                 snapshot_failures, l3_event_q, stop_evt>>

\* the orchestrator sets the stop signal
L3Stop ==
  /\ UNCHANGED <<busvars, l2vars, feedvars, sinkvars, streamvars>>
  /\ ~stop_evt
  /\ stop_evt' = TRUE
  /\ UNCHANGED l3vars

NextL3 ==
  L3Start \/ L3Snapshot \/ L3Live \/ L3RestPoll \/ L3RestWake \/ L3Receive
    \/ L3Backoff \/ L3Stop

-----------------------------------------------------------------------------
(* SpecSink: StorageSink.run with its RollingParquetWriter. A row is the    *)
(* ts_ms and venue of the BookState it was made of, and n, the place of the *)
(* event among those the sink took, which stands for the other columns.     *)
(* A page is the list of rows of one parquet file. The storage medium      *)
(* works in this specification: every read and write of a page succeeds.   *)

\* window_sec * 1000, in units of ts_ms
Window == 2

\* StorageSink._flush_sec, in ticks of now
FlushSec == 2

\* time.time() when the sink starts, in ticks: far above _flush_sec
StartTime == 2

\* ticks the clock is followed for
MaxTime == 4

\* BookState events the sink is given
MaxRows == 3

\* ts_local_ms of a BookState
Ts == 0..3

Venues == {"binance", "coinbase"}

\* _bucket_ms before the first write
NoBucket == -1

\* _bucket_start_ms
BucketStartMs(ts_ms) == (ts_ms \div Window) * Window

\* handle_book: the row of a BookState
SinkRow(ts_ms, venue, n) == [ts_ms |-> ts_ms, venue |-> venue, n |-> n]

\* the subset of drop_duplicates
RowKey(row) == <<row.ts_ms, row.venue>>

\* drop_duplicates that keeps every row
DropDuplicates_KeepsAll(df) == df

\* DataFrame.drop_duplicates(subset=["ts_ms", "venue"]): the first row of each
\* key is kept, in place
DropDuplicates(df) ==
  LET First(i) == \A j \in 1..(i - 1) : RowKey(df[j]) # RowKey(df[i])
      Kept == {i \in 1..Len(df) : First(i)}
      RECURSIVE Pick(_, _)
      Pick(i, acc) ==
        IF i > Len(df) THEN acc
        ELSE Pick(i + 1, IF i \in Kept THEN Append(acc, df[i]) ELSE acc)
  IN Pick(1, <<>>)

\* the rows of df in every order
RowOrders(df) ==
  {[i \in 1..Len(df) |-> df[f[i]]] :
     f \in {g \in [1..Len(df) -> 1..Len(df)] : \A i, j \in 1..Len(df) : g[i] = g[j] => i = j}}

IsSortedByTs(df) == \A i \in 1..(Len(df) - 1) : df[i].ts_ms <= df[i + 1].ts_ms

\* DataFrame.sort_values("ts_ms"): ascending; the order of rows with equal
\* ts_ms is whatever the sort algorithm leaves, so every such order is a
\* result
SortValues(df) == {d \in RowOrders(df) : IsSortedByTs(d)}

\* RollingParquetWriter.flush, lines 49-59: the pages it can leave for
\* _rows = rs and _bucket_ms = b. When the page exists and read_parquet or
\* what follows it raises, `except Exception: pass` leaves df as the new rows
\* alone, and to_parquet writes that over the page.
FlushPages(rs, b, pgs, read_ok) ==
  IF rs = <<>> THEN {pgs}
  ELSE IF b \in DOMAIN pgs
       THEN IF read_ok
            THEN {[pgs EXCEPT ![b] = df] : df \in SortValues(DropDuplicates(pgs[b] \o rs))}
            ELSE {[pgs EXCEPT ![b] = rs]}
       ELSE {[x \in DOMAIN pgs \cup {b} |-> IF x = b THEN rs ELSE pgs[x]]}

\* RollingParquetWriter.flush on a storage medium that works
Flush(rs, b, pgs) == FlushPages(rs, b, pgs, TRUE)

InitSinkVars ==
  /\ sink_pc = "next"
  /\ sink_q = 0
  /\ writer_rows = <<>>
  /\ bucket_ms = NoBucket
  /\ pages = EmptyDict
  /\ last_flush = 0
  /\ now = StartTime
  /\ consumed = <<>>
  /\ flushes = EmptyDict
  /\ sink_fault = "none"

\* a flush that wrote the page of bucket b is counted in fl
CountFlush(fl, b) ==
  [x \in DOMAIN fl \cup {b} |->
     IF x = b THEN (IF b \in DOMAIN fl THEN fl[b] + 1 ELSE 1) ELSE fl[x]]

\* a flush that lets the failure of mkdir or to_parquet pass
WriterFlush_SwallowsWrite(w, b, read_ok, write_ok) ==
  IF w.rows = <<>> THEN {w}
  ELSE IF ~write_ok THEN {[w EXCEPT !.fault = "write"]}
  ELSE {[w EXCEPT !.pages = pgs, !.rows = <<>>, !.flushes = CountFlush(@, b)] :
          pgs \in FlushPages(w.rows, b, w.pages, read_ok)}

\* RollingParquetWriter.flush as the sink calls it, on the writer state
\* w = [rows, pages, flushes, fault, raised]: nothing to do without rows;
\* mkdir and to_parquet are under no try, so their failure leaves flush
\* with the page and _rows as they were (the failure is taken to come
\* before the file is opened); else the page is written and _rows cleared
WriterFlush(w, b, read_ok, write_ok) ==
  IF w.rows = <<>> THEN {w}
  ELSE IF ~write_ok THEN {[w EXCEPT !.fault = "write", !.raised = TRUE]}
  ELSE {[w EXCEPT !.pages = pgs, !.rows = <<>>, !.flushes = CountFlush(@, b),
                  !.fault = IF b \in DOMAIN w.pages /\ ~read_ok THEN "read" ELSE @] :
          pgs \in FlushPages(w.rows, b, w.pages, read_ok)}

\* write never sees a change of bucket
Rollover_Never(b, cur) == FALSE

\* RollingParquetWriter.write, line 35
Rollover(b, cur) == b # cur

\* a storage medium and payloads that work, and ones that can fail
Works == {TRUE}
CanFail == BOOLEAN

\* a builder's publish puts a book_state event on the bus
SinkPublish ==
  /\ UNCHANGED <<busvars, l2vars, l3vars, feedvars, streamvars, stop_evt>>
  /\ sink_pc = "next"
  /\ Len(consumed) + sink_q < MaxRows
  /\ sink_q' = sink_q + 1
  /\ UNCHANGED <<sink_pc, writer_rows, bucket_ms, pages, last_flush, now, consumed, flushes,
                 sink_fault>>

\* the clock moves on
SinkTick ==
  /\ UNCHANGED <<busvars, l2vars, l3vars, feedvars, streamvars, stop_evt>>
  /\ now < MaxTime
  /\ now' = now + 1
  /\ UNCHANGED <<sink_pc, sink_q, writer_rows, bucket_ms, pages, last_flush, consumed,
                 flushes, sink_fault>>

\* one pass of the loop of StorageSink.run: bus.next() returns an event,
\* handle_book makes its row and RollingParquetWriter.write buffers it
\* (flushing first when the bucket changes), then the timer test and its
\* flush. outcomes is what json.dumps, read_parquet and to_parquet can do.
\* No statement of the pass is under a try of the sink: an exception of
\* handle_book or of flush leaves run.
SinkPass(outcomes) ==
  /\ UNCHANGED <<busvars, l2vars, l3vars, feedvars, streamvars>>
  /\ sink_pc = "next"
  /\ ~stop_evt
  /\ sink_q > 0
  /\ sink_q' = sink_q - 1
  /\ \E ts_ms \in Ts, venue \in Venues, ser_ok \in outcomes :
       IF ~ser_ok
       THEN /\ sink_pc' = "raised"
            /\ sink_fault' = "serialize"
            /\ UNCHANGED <<writer_rows, bucket_ms, pages, last_flush, consumed, flushes>>
       ELSE \E r1 \in outcomes, w1 \in outcomes, r2 \in outcomes, w2 \in outcomes :
         LET row == SinkRow(ts_ms, venue, Len(consumed) + 1)
             b == BucketStartMs(ts_ms)
             cur == IF bucket_ms = NoBucket THEN b ELSE bucket_ms
             due == now - last_flush >= FlushSec
             w0 == [rows |-> writer_rows, pages |-> pages, flushes |-> flushes,
                    fault |-> "none", raised |-> FALSE]
         IN /\ consumed' = Append(consumed, row)
            /\ \E wa \in (IF Rollover(b, cur) THEN WriterFlush(w0, cur, r1, w1) ELSE {w0}) :
                 IF wa.raised
                 THEN /\ sink_pc' = "raised"
                      /\ bucket_ms' = cur
                      /\ writer_rows' = wa.rows
                      /\ pages' = wa.pages
                      /\ flushes' = wa.flushes
                      /\ sink_fault' = wa.fault
                      /\ UNCHANGED last_flush
                 ELSE LET wb == [wa EXCEPT !.rows = Append(@, row)] IN
                      \E wc \in (IF due THEN WriterFlush(wb, b, r2, w2) ELSE {wb}) :
                        /\ sink_pc' = IF wc.raised THEN "raised" ELSE "next"
                        /\ bucket_ms' = b
                        /\ writer_rows' = wc.rows
                        /\ pages' = wc.pages
                        /\ flushes' = wc.flushes
                        /\ sink_fault' = wc.fault
                        /\ last_flush' = IF due /\ ~wc.raised THEN now ELSE last_flush
  /\ UNCHANGED <<now, stop_evt>>

\* a pass of the sink while the storage medium works and every row can be
\* made
SinkRun == SinkPass(Works)

\* a pass of the sink while anything it calls can fail
SinkRunFaults == SinkPass(CanFail)

\* shutdown: main_async sets stop_evt and cancels every task; the sink task
\* is cancelled where it waits, in bus.next()
SinkShutdown ==
  /\ UNCHANGED <<busvars, l2vars, l3vars, feedvars, streamvars>>
  /\ sink_pc = "next"
  /\ stop_evt' = TRUE
  /\ sink_pc' = "cancelled"
  /\ UNCHANGED <<sink_q, writer_rows, bucket_ms, pages, last_flush, now, consumed, flushes,
                 sink_fault>>

NextSink == SinkPublish \/ SinkTick \/ SinkRun \/ SinkShutdown

-----------------------------------------------------------------------------
(* SpecStream: the task of each builder (start and _run_once) together     *)
(* with the receiver task _run_once creates, for both venues side by side. *)
(* A frame of the websocket is told by its kind only; what a well-formed   *)
(* message does to the book is the matter of SpecL2 and SpecL3.            *)

StreamVenues == {"binance", "coinbase"}

\* frames the receiver reads on one connection
MaxFrames == 2

\* resyncs a builder is followed for
MaxStreamResync == 1

\* kinds of frame: a well-formed message that bridges ("ok"), a well-formed
\* message past the cursor ("gap"), a JSON object whose sequence fields are
\* not numbers ("bad_field"), text that is not JSON ("not_json"), a JSON
\* number or null ("scalar"), a JSON list ("not_dict"), and the end of the
\* stream ("close")
FrameKinds == {"ok", "gap", "bad_field", "not_json", "scalar", "not_dict", "close"}

\* the frames that are not a well-formed message
Malformed == {"bad_field", "not_json", "scalar", "not_dict"}

\* binance _receiver, one frame: json.loads raises on text that is not JSON,
\* `"data" in msg` raises on a number or null, a list is skipped, a
\* depthUpdate object is put on event_q whatever its fields hold
L2ReceiverOutcome(kind) ==
  CASE kind = "close" -> "ended"
    [] kind \in {"not_json", "scalar"} -> "raised"
    [] kind = "not_dict" -> "skip"
    [] OTHER -> "put"

\* coinbase _receiver, one frame: json.loads raises on text that is not
\* JSON, anything that is not an object is skipped, an object is put on
\* event_q whatever its fields hold
L3ReceiverOutcome(kind) ==
  CASE kind = "close" -> "ended"
    [] kind = "not_json" -> "raised"
    [] kind \in {"scalar", "not_dict"} -> "skip"
    [] OTHER -> "put"

ReceiverOutcome(v, kind) ==
  IF v = "binance" THEN L2ReceiverOutcome(kind) ELSE L3ReceiverOutcome(kind)

\* the consumer loops, one message: int(...) raises on a field that is not a
\* number, a gap raises RuntimeError, anything else is taken (applied or
\* stale) and the loop goes on
ConsumerOutcome(kind) ==
  IF kind \in {"bad_field", "gap"} THEN "raise" ELSE "next"

InitStreamVars ==
  /\ st_pc = [v \in StreamVenues |-> "start"]
  /\ st_rx = [v \in StreamVenues |-> "none"]
  /\ st_q = [v \in StreamVenues |-> <<>>]
  /\ st_resync = [v \in StreamVenues |-> 0]
  /\ st_nframes = [v \in StreamVenues |-> 0]
  /\ st_frame = [v \in StreamVenues |-> "none"]

\* an exception leaves _run_once on the builder's task: finally cancels the
\* receiver, start counts a resync and sleeps
StreamEpochFails(v) ==
  /\ st_pc' = [st_pc EXCEPT ![v] = "backoff"]
  /\ st_rx' = [st_rx EXCEPT ![v] = "none"]
  /\ st_q' = [st_q EXCEPT ![v] = <<>>]
  /\ st_resync' = [st_resync EXCEPT ![v] = @ + 1]

\* start: the loop test; websockets.connect opens the connection and the
\* receiver task is created, or the connection attempt raises
StreamConnect ==
  /\ UNCHANGED <<busvars, l2vars, l3vars, feedvars, sinkvars, stop_evt>>
  /\ ~stop_evt
  /\ \E v \in StreamVenues :
       /\ st_pc[v] = "start"
       /\ \/ /\ st_pc' = [st_pc EXCEPT ![v] = "get"]
             /\ st_rx' = [st_rx EXCEPT ![v] = "running"]
             /\ st_q' = [st_q EXCEPT ![v] = <<>>]
             /\ UNCHANGED st_resync
          \/ StreamEpochFails(v)
       /\ st_nframes' = [st_nframes EXCEPT ![v] = 0]
       /\ st_frame' = [st_frame EXCEPT ![v] = "none"]

\* the receiver task reads the next frame of the connection
StreamFrame ==
  /\ UNCHANGED <<busvars, l2vars, l3vars, feedvars, sinkvars, stop_evt>>
  /\ \E v \in StreamVenues, kind \in FrameKinds :
       /\ st_rx[v] = "running"
       /\ st_nframes[v] < MaxFrames
       /\ st_nframes' = [st_nframes EXCEPT ![v] = @ + 1]
       /\ st_frame' = [st_frame EXCEPT ![v] = kind]
       /\ LET out == ReceiverOutcome(v, kind) IN
            /\ st_rx' = [st_rx EXCEPT ![v] = IF out \in {"raised", "ended"} THEN out
                                             ELSE "running"]
            /\ st_q' = [st_q EXCEPT ![v] = IF out = "put" THEN Append(@, kind) ELSE @]
       /\ UNCHANGED <<st_pc, st_resync>>

\* the builder's await event_q.get() returns a message and the loop deals
\* with it
StreamGet ==
  /\ UNCHANGED <<busvars, l2vars, l3vars, feedvars, sinkvars, stop_evt>>
  /\ \E v \in StreamVenues :
       /\ st_pc[v] = "get"
       /\ st_q[v] # <<>>
       /\ IF ConsumerOutcome(Head(st_q[v])) = "raise"
          THEN StreamEpochFails(v)
          ELSE /\ st_q' = [st_q EXCEPT ![v] = Tail(@)]
               /\ UNCHANGED <<st_pc, st_rx, st_resync>>
       /\ UNCHANGED <<st_nframes, st_frame>>

\* asyncio.sleep(resync_backoff) is over: back to the loop test of start
StreamBackoff ==
  /\ UNCHANGED <<busvars, l2vars, l3vars, feedvars, sinkvars, stop_evt>>
  /\ \E v \in StreamVenues :
       /\ st_pc[v] = "backoff"
       /\ st_resync[v] <= MaxStreamResync
       /\ st_pc' = [st_pc EXCEPT ![v] = "start"]
       /\ UNCHANGED <<st_rx, st_q, st_resync, st_nframes, st_frame>>

\* shutdown: main_async sets stop_evt and cancels every task
StreamShutdown ==
  /\ UNCHANGED <<busvars, l2vars, l3vars, feedvars, sinkvars>>
  /\ ~stop_evt
  /\ stop_evt' = TRUE
  /\ st_pc' = [v \in StreamVenues |-> "done"]
  /\ st_rx' = [v \in StreamVenues |-> "none"]
  /\ UNCHANGED <<st_q, st_resync, st_nframes, st_frame>>

\* the builders while no shutdown is asked for
NextStreamRunning == StreamConnect \/ StreamFrame \/ StreamGet \/ StreamBackoff

NextStream == NextStreamRunning \/ StreamShutdown

-----------------------------------------------------------------------------
(* SpecL3Feed: the replay loop and the live loop of one L3 epoch taken by  *)
(* themselves, from the drain of event_q on, for every list of messages    *)
(* the drain can hand to the replay loop. Each step records the message it *)
(* parsed.                                                                 *)

\* messages the drain hands to the replay loop
MaxBuffered == 2

\* "sequence" of a stream message in SpecL3Feed
FeedSeqs == 10..12

\* bids of the snapshot: none, one order, or two orders resting at 10.0
FeedSnapBids ==
  {<<>>}
  \cup {<<<<p, z, "o1">>>> : p \in Prices, z \in Sizes \ {0}}
  \cup {<<<<100, z1, "o1">>, <<100, z2, "o2">>>> : z1 \in Sizes \ {0}, z2 \in Sizes \ {0}}

\* asks of the snapshot: none, or an order no message names
FeedSnapAsks == {<<>>, <<<<105, 1, "o3">>>>}

FeedSnapshots == [sequence : {10}, bids : FeedSnapBids, asks : FeedSnapAsks]

\* no message read
NoMsg == Msg("none", "", "", 0, 0)

InitFeedVars ==
  /\ l3_buffered = 0
  /\ l3_seq = 0
  /\ l3_msg = NoMsg

\* the state _run_once is in at line 82: snapshot loaded, event_q drained
InitL3Feed ==
  /\ InitBusVars
  /\ InitL2Vars
  /\ ~emit_full
  /\ stop_evt = FALSE
  /\ \E snap \in FeedSnapshots :
       /\ orders = L3LoadSnapshot(snap).orders
       /\ levels = L3LoadSnapshot(snap).levels
       /\ last_sequence = snap.sequence
  /\ allow_l2_fallback = DefaultAllowL2Fallback
  /\ InitSinkVars
  /\ InitStreamVars
  /\ l3_buffered \in 0..MaxBuffered
  /\ l3_pc = IF l3_buffered = 0 THEN "live" ELSE "replay"
  /\ l3_resync_count = 0
  /\ snapshot_failures = 0
  /\ l3_event_q = 0
  /\ l3_emitted = NoState
  /\ l3_seq = 0
  /\ l3_msg = NoMsg

\* _apply_message, the cursor moves to seq, _emit_state
L3FeedApply(seq) ==
  \E msg \in L3Msgs :
    LET st == ApplyMessage([orders |-> orders, levels |-> levels], msg) IN
      /\ orders' = st.orders
      /\ levels' = st.levels
      /\ last_sequence' = seq
      /\ l3_emitted' = L3EmitState(st)
      /\ l3_msg' = msg

\* one pass of the replay loop over buffered (lines 82-88)
L3FeedReplay ==
  /\ UNCHANGED <<busvars, l2vars, sinkvars, streamvars, allow_l2_fallback>>
  /\ l3_pc = "replay"
  /\ l3_buffered > 0
  /\ \E seq \in FeedSeqs :
       /\ l3_seq' = seq
       /\ IF seq <= last_sequence
          THEN /\ l3_emitted' = NoState
               /\ l3_msg' = NoMsg
               /\ UNCHANGED <<orders, levels, last_sequence>>
          ELSE L3FeedApply(seq)
  /\ l3_buffered' = l3_buffered - 1
  /\ l3_pc' = IF l3_buffered > 1 THEN "replay" ELSE LiveTop(stop_evt)
  /\ UNCHANGED <<l3_resync_count, snapshot_failures, l3_event_q, stop_evt>>

\* one pass of the live loop (lines 90-99)
L3FeedLive ==
  /\ UNCHANGED <<busvars, l2vars, sinkvars, streamvars, allow_l2_fallback>>
  /\ l3_pc = "live"
  /\ \E seq \in FeedSeqs :
       /\ l3_seq' = seq
       /\ LET out == ClassifyL3Live(last_sequence, seq) IN
            CASE out = "apply" ->
                 /\ L3FeedApply(seq)
                 /\ l3_pc' = LiveTop(stop_evt)
                 /\ UNCHANGED <<l3_resync_count, l3_event_q>>
              [] out = "gap" ->
                 /\ L3EpochFails
                 /\ l3_emitted' = NoState
                 /\ l3_msg' = NoMsg
                 /\ UNCHANGED <<orders, levels, last_sequence>>
              [] OTHER ->
                 /\ l3_pc' = LiveTop(stop_evt)
                 /\ l3_emitted' = NoState
                 /\ l3_msg' = NoMsg
                 /\ UNCHANGED <<orders, levels, last_sequence, l3_resync_count,
                                l3_event_q>>
  /\ UNCHANGED <<l3_buffered, snapshot_failures, stop_evt>>

NextL3Feed == L3FeedReplay \/ L3FeedLive

-----------------------------------------------------------------------------
(* Specifications *)

InitBus ==
  InitBusVars /\ InitL2Vars /\ InitL3Vars /\ InitFeedVars /\ InitSinkVars /\ InitStreamVars
    /\ stop_evt = FALSE
    /\ allow_l2_fallback = DefaultAllowL2Fallback

SpecBus == InitBus /\ [][NextBus]_vars

InitL2 ==
  InitL2Vars /\ InitBusVars /\ InitL3Vars /\ InitFeedVars /\ InitSinkVars /\ InitStreamVars
    /\ stop_evt = FALSE
    /\ allow_l2_fallback = DefaultAllowL2Fallback

SpecL2 == InitL2 /\ [][NextL2]_vars

InitL3 ==
  InitL3Vars /\ InitL2Vars /\ InitBusVars /\ InitFeedVars /\ InitSinkVars /\ InitStreamVars
    /\ stop_evt = FALSE
    /\ allow_l2_fallback \in BOOLEAN

\* the venue sends a contiguous stream: the message the builder reads
\* starts one past the end of the message it read before, in the same epoch
\* (l2_u is 0 until the first message of an epoch is read)
Contiguous == l2_u = 0 \/ l2_U' = l2_u + 1

\* the L2 builder on a contiguous stream, while no stop is asked for
NextL2Contiguous ==
  \/ L2Start
  \/ L2Receive
  \/ L2Snapshot
  \/ (L2Replay /\ Contiguous)
  \/ (L2Bridge /\ Contiguous)
  \/ (L2Live /\ Contiguous)
  \/ L2Backoff

SpecL2Contiguous == InitL2 /\ [][NextL2Contiguous]_vars

SpecL3 == InitL3 /\ [][NextL3]_vars

SpecL3Feed == InitL3Feed /\ [][NextL3Feed]_vars

InitSink ==
  InitBusVars /\ InitL2Vars /\ InitL3Vars /\ InitFeedVars /\ InitSinkVars /\ InitStreamVars
    /\ stop_evt = FALSE
    /\ ~emit_full
    /\ allow_l2_fallback = DefaultAllowL2Fallback

SpecSink == InitSink /\ [][NextSink]_vars

InitStream ==
  InitBusVars /\ InitL2Vars /\ InitL3Vars /\ InitFeedVars /\ InitSinkVars /\ InitStreamVars
    /\ stop_evt = FALSE
    /\ ~emit_full
    /\ allow_l2_fallback = DefaultAllowL2Fallback

SpecStream == InitStream /\ [][NextStream]_vars

\* the event loop runs a builder task that can go on, and a backoff sleep
\* ends; what the venue sends, and whether a connection attempt succeeds,
\* is up to the venue
SpecStreamFair ==
  InitStream /\ [][NextStreamRunning]_vars
    /\ WF_vars(StreamGet) /\ WF_vars(StreamBackoff) /\ WF_vars(StreamConnect)

\* the sink while no shutdown is asked for: the event loop runs the sink
\* task whenever bus.next() has an event for it, and time passes; whether a
\* builder publishes another event is up to the feeds
NextSinkRunning == SinkPublish \/ SinkTick \/ SinkRun

SpecSinkFair ==
  InitSink /\ [][NextSinkRunning]_vars /\ WF_vars(SinkRun) /\ WF_vars(SinkTick)

\* main_async, lines 67-76, when the sink task has ended with an exception:
\* gather raises it in main_async, whose finally sets stop_evt and cancels
\* every task; the exception then leaves main_async and asyncio.run
GatherRaises ==
  /\ UNCHANGED <<busvars, l2vars, l3vars, feedvars, sinkvars>>
  /\ sink_pc = "raised"
  /\ ~stop_evt
  /\ stop_evt' = TRUE
  /\ st_pc' = [v \in StreamVenues |-> "done"]
  /\ st_rx' = [v \in StreamVenues |-> "none"]
  /\ UNCHANGED <<st_q, st_resync, st_nframes, st_frame>>

\* the sink on a storage medium that can fail, fed with payloads that can
\* fail to serialize; main_async waits in gather, so the event loop runs it
\* when a task has ended with an exception
NextSinkFaults == SinkPublish \/ SinkTick \/ SinkRunFaults \/ SinkShutdown \/ GatherRaises

SpecSinkFaults == InitSink /\ [][NextSinkFaults]_vars /\ WF_vars(GatherRaises)

\* SpecLoop: the tasks of main_async on the one thread of the event loop,
\* around the snapshot fetch of a builder. _fetch_snapshot is a plain
\* function that calls urllib.request.urlopen and is called without await:
\* from the call to its return the builder's task keeps the thread, and no
\* other task runs. The stream messages are not followed here.

\* no task is inside urlopen
LoopFree == \A v \in StreamVenues : st_pc[v] # "fetch"

\* what a snapshot request can come back with: a snapshot that is used, a
\* snapshot older than first_u (binance only, lines 84-88: the next request
\* follows with no await between), or nothing
FetchOutcomes(v) == IF v = "binance" THEN {"ok", "stale", "fail"} ELSE {"ok", "fail"}

\* start and _run_once up to the call of _fetch_snapshot: the connection is
\* opened and the receiver task created (for binance the wait for the first
\* delta, lines 78-79, is part of this step), or the connection attempt
\* raises
LoopConnect ==
  /\ UNCHANGED <<busvars, l2vars, l3vars, feedvars, sinkvars, stop_evt>>
  /\ LoopFree
  /\ ~stop_evt
  /\ \E v \in StreamVenues :
       /\ st_pc[v] = "start"
       /\ \/ /\ st_pc' = [st_pc EXCEPT ![v] = "fetch"]
             /\ st_rx' = [st_rx EXCEPT ![v] = "running"]
             /\ st_q' = [st_q EXCEPT ![v] = <<>>]
             /\ UNCHANGED st_resync
          \/ StreamEpochFails(v)
       /\ UNCHANGED <<st_nframes, st_frame>>

\* urlopen returns, a tick of the clock after it was called. A usable
\* snapshot takes the builder on to its message loop; a stale one starts the
\* next request at once; without a snapshot binance returns from _run_once
\* (no resync is counted, no backoff) and coinbase raises
FetchReturns ==
  /\ UNCHANGED <<busvars, l2vars, l3vars, feedvars, stop_evt>>
  /\ now < MaxTime
  /\ now' = now + 1
  /\ \E v \in StreamVenues :
       /\ st_pc[v] = "fetch"
       /\ \E out \in FetchOutcomes(v) :
            CASE out = "ok" ->
                   /\ st_pc' = [st_pc EXCEPT ![v] = "get"]
                   /\ UNCHANGED <<st_rx, st_q, st_resync>>
              [] out = "stale" ->
                   UNCHANGED <<st_pc, st_rx, st_q, st_resync>>
              [] out = "fail" ->
                   IF v = "binance"
                   THEN /\ st_pc' = [st_pc EXCEPT ![v] = "start"]
                        /\ st_rx' = [st_rx EXCEPT ![v] = "none"]
                        /\ st_q' = [st_q EXCEPT ![v] = <<>>]
                        /\ UNCHANGED st_resync
                   ELSE StreamEpochFails(v)
  /\ UNCHANGED <<st_nframes, st_frame>>
  /\ UNCHANGED <<sink_pc, sink_q, writer_rows, bucket_ms, pages, last_flush, consumed,
                 flushes, sink_fault>>

\* the steps of the other tasks: the event loop runs them when no task keeps
\* its thread
LoopBackoff == LoopFree /\ StreamBackoff

LoopSinkPublish == LoopFree /\ SinkPublish

LoopSinkRun == LoopFree /\ SinkRun

NextLoop ==
  LoopConnect \/ FetchReturns \/ LoopBackoff \/ LoopSinkPublish \/ LoopSinkRun \/ SinkTick

SpecLoop == InitSink /\ [][NextLoop]_vars

\* Both builders of main_async. They share the stop signal and the bus and
\* nothing else, so what one builder does in a step does not depend on the
\* steps of the other: a behaviour of SpecBuilders runs one of them and
\* leaves the other at its construction (the L3 builder beside an L2
\* builder with emit_full at its default).
L2Idle ==
  /\ l2_pc = "start"
  /\ resync_count = 0
  /\ ~emit_full

L3Idle ==
  /\ l3_pc = "start"
  /\ l3_resync_count = 0
  /\ snapshot_failures = 0

NextBuilders == (L3Idle /\ NextL2) \/ (L2Idle /\ NextL3)

InitBuilders ==
  InitL2Vars /\ InitL3Vars /\ InitBusVars /\ InitFeedVars /\ InitSinkVars /\ InitStreamVars
    /\ stop_evt = FALSE
    /\ allow_l2_fallback = DefaultAllowL2Fallback

SpecBuilders == InitBuilders /\ [][NextBuilders]_vars

-----------------------------------------------------------------------------
(* Claims about the EventBus, under SpecBus *)

\* C1 (as claimed): the sink receives one venue's BookStates in the order the
\* builder emitted them: delivered is strictly increasing in emission number.
C1_DeliveredInEmitOrder ==
  \A i, j \in 1..Len(delivered) : i < j => delivered[i] < delivered[j]

\* C2: the events next() has returned, followed by those still queued, are
\* exactly the events whose publish() completed, in completion order; no
\* event is lost, duplicated or changed.
C2_FifoDelivery ==
  /\ completed = delivered \o queue
  /\ \A i, j \in 1..Len(completed) : i # j => completed[i] # completed[j]
  /\ Range(completed) \subseteq 1..emit_seq

\* C2 witness: next() has returned two events while a third is queued
C2_Witness == Len(delivered) >= 2 /\ queue # <<>>

PendingPubs == {ready[i].n : i \in {x \in 1..Len(ready) : ready[x].k = "pub"}}

\* C3: the bus never holds more than its capacity; an emitted event is in
\* exactly one place (not yet put, suspended in put, queued, delivered), so
\* none is dropped; a publish completes only into a free slot; a publish
\* suspends only on a full bus and resumes only after next() took an
\* event; next() returns only events the bus held, and while the sink
\* waits in next() the bus is empty.
C3_BoundedBackpressure ==
  /\ [](/\ Len(queue) <= Capacity
        /\ (sink_wait => queue = <<>>)
        /\ \A n \in 1..emit_seq :
             Cardinality({x \in 1..4 :
                \/ x = 1 /\ n \in PendingPubs
                \/ x = 2 /\ n \in Range(putters)
                \/ x = 3 /\ n \in Range(queue)
                \/ x = 4 /\ n \in Range(delivered)}) = 1)
  /\ [][/\ (completed' # completed =>
              /\ Len(queue) < Capacity
              /\ queue' = Append(queue, Last(completed')))
        /\ (Len(putters') > Len(putters) => Len(queue) = Capacity /\ queue' = queue)
        /\ (\A n \in Range(putters) : n \notin Range(putters') =>
              /\ Len(delivered') > Len(delivered)
              /\ n \in PendingPubs')
        /\ (delivered' # delivered => queue # <<>> /\ delivered' = delivered \o queue)
       ]_vars

\* C3 witness: a publish is suspended on a full bus
C3_Witness == putters # <<>> /\ Len(queue) = Capacity


-----------------------------------------------------------------------------
(* Claims about the L2 builder, under SpecL2 *)

\* a step of the replay loop, of the wait for the bridging delta or of the
\* live loop: the builder parses one delta, whose ids are l2_U' and l2_u'
DeltaStep == l2_pc \in {"replay", "bridge", "live"} /\ stop_evt' = stop_evt

Bridges(id, U, u) == U <= id + 1 /\ id + 1 <= u

BookAndCursor == <<bids, asks, book_update_id>>

\* C4: in replay, bridging wait and live loop alike, the step that parses a
\* delta [U, u] changes the book or the cursor only if U <= cursor + 1 <= u,
\* and when U <= cursor + 1 <= u the delta is applied: the cursor equals u
\* right after the step and no gap condition is raised.
C4_AppliedIffBridges ==
  [][DeltaStep =>
       /\ (BookAndCursor' # BookAndCursor
             => Bridges(book_update_id, l2_U', l2_u'))
       /\ (Bridges(book_update_id, l2_U', l2_u')
             => /\ book_update_id' = l2_u'
                /\ book_update_id' # book_update_id
                /\ l2_pc' # "backoff"
                /\ resync_count' = resync_count
                /\ bids' = ApplySide(bids, l2_body'.b)
                /\ asks' = ApplySide(asks, l2_body'.a))
    ]_vars

\* C4 witness: a delta was applied in the replay loop and a later one, with
\* U < u, in the live loop; the cursor stands at its u
C4_Witness ==
  /\ l2_pc = "live"
  /\ applied
  /\ l2_emitted # NoState
  /\ l2_U < l2_u
  /\ book_update_id = l2_u

\* C5: the step that parses a delta with U > cursor + 1 leaves both maps and
\* the cursor as they were, ends the epoch (the builder is in the backoff of
\* start) and adds one to the resync counter.
C5_GapAbortsEpoch ==
  [][DeltaStep /\ l2_U' > book_update_id + 1 =>
       /\ BookAndCursor' = BookAndCursor
       /\ l2_pc' = "backoff"
       /\ resync_count' = resync_count + 1
       /\ l2_emitted' = NoState
    ]_vars

\* C5 witness (scenario B): with the cursor at 101 the delta {U:105, u:110}
\* was parsed; the epoch is over and one resync is counted
C5_Witness ==
  /\ l2_pc = "backoff"
  /\ book_update_id = 101
  /\ l2_U = 105
  /\ l2_u = 110
  /\ resync_count = 1

\* C6: the step that parses a delta with u <= cursor leaves both maps and
\* the cursor as they were, publishes nothing, raises no gap condition, and
\* the BookState the book yields is the one it yielded before.
C6_StaleDeltaIdempotent ==
  [][DeltaStep /\ l2_u' <= book_update_id =>
       /\ BookAndCursor' = BookAndCursor
       /\ l2_emitted' = NoState
       /\ L2EmitState(bids', asks', emit_full) = L2EmitState(bids, asks, emit_full)
       /\ resync_count' = resync_count
       /\ l2_pc' # "backoff"
    ]_vars

\* C6 witness: in the live loop, with both sides of the book filled, a delta
\* that ends before the cursor was parsed
C6_Witness ==
  /\ l2_pc = "live"
  /\ l2_u # 0
  /\ l2_u < book_update_id
  /\ DOMAIN bids # {}
  /\ DOMAIN asks # {}

\* the book of scenario A right after _load_snapshot, two deltas buffered
ScenarioA_Loaded ==
  /\ l2_pc = "replay"
  /\ buffered = 2
  /\ book_update_id = 100
  /\ bids = (100 :> 1)
  /\ asks = (105 :> 1)

\* scenario A after the first buffered delta {U:95, u:100}
ScenarioA_FirstDone ==
  /\ l2_pc = "replay"
  /\ buffered = 1
  /\ book_update_id = 100
  /\ bids = (100 :> 1)
  /\ asks = (105 :> 1)
  /\ l2_U = 95
  /\ l2_u = 100

\* C7 (scenario A): the snapshot {lastUpdateId:100, bids:[[10.0,1]],
\* asks:[[10.5,1]]} loads as bids {10.0: 1}, asks {10.5: 1}; replaying
\* {U:95, u:100} leaves book and cursor as loaded; replaying {U:101, u:101,
\* b:[[10.0,0]]} after it leaves the bid side empty, asks {10.5: 1} and the
\* cursor at 101; neither step raises a gap condition.
C7_ScenarioA ==
  /\ [](/\ LoadSide(EmptyDict, <<<<100, 1>>>>) = (100 :> 1)
        /\ LoadSide(EmptyDict, <<<<105, 1>>>>) = (105 :> 1))
  /\ [][/\ (ScenarioA_Loaded /\ stop_evt' = stop_evt /\ l2_U' = 95 /\ l2_u' = 100
              => /\ BookAndCursor' = BookAndCursor
                 /\ l2_pc' = "replay"
                 /\ buffered' = 1
                 /\ resync_count' = resync_count)
        /\ (ScenarioA_FirstDone /\ stop_evt' = stop_evt /\ l2_U' = 101 /\ l2_u' = 101
              => /\ l2_pc' = LiveTop(stop_evt)
                 /\ resync_count' = resync_count
                 /\ book_update_id' = 101
                 /\ (l2_body' = [b |-> <<<<100, 0>>>>, a |-> <<>>]
                       => bids' = EmptyDict /\ asks' = (105 :> 1)))
       ]_vars

\* C7 witness: the end of scenario A
C7_Witness ==
  /\ l2_pc = "live"
  /\ applied
  /\ buffered = 0
  /\ l2_U = 101
  /\ l2_u = 101
  /\ l2_body = [b |-> <<<<100, 0>>>>, a |-> <<>>]
  /\ bids = EmptyDict
  /\ asks = (105 :> 1)
  /\ book_update_id = 101
  /\ resync_count = 0

\* C8 (as claimed): every BookState the L2 builder publishes has
\* best_bid < best_ask and only levels of positive quantity.
C8_UncrossedPositive ==
  l2_emitted # NoState =>
    /\ l2_emitted.best_bid < l2_emitted.best_ask
    /\ \A i \in 1..Len(l2_emitted.bids) : l2_emitted.bids[i][2] > 0
    /\ \A i \in 1..Len(l2_emitted.asks) : l2_emitted.asks[i][2] > 0

\* C10 (as claimed): every step that applies a delta and leaves both sides of
\* the book non-empty publishes the BookState of the book it leaves, in the
\* replay loop and in the wait for the bridging delta as in the live loop.
C10_PublishAfterEveryApply ==
  [][DeltaStep /\ book_update_id' # book_update_id
       /\ DOMAIN bids' # {} /\ DOMAIN asks' # {}
       => /\ l2_emitted' # NoState
          /\ l2_emitted' = L2EmitState(bids', asks', emit_full)
    ]_vars

\* new is old updated by the entries of side: a price the entries name has
\* the quantity of the last entry naming it, or is absent when that quantity
\* is 0; every other price is as in old
SideUpdated(old, new, side) ==
  \A p \in Prices \cup DOMAIN old \cup DOMAIN new :
    LET I == {i \in 1..Len(side) : side[i][1] = p} IN
      IF I = {}
      THEN /\ p \in DOMAIN new <=> p \in DOMAIN old
           /\ p \in DOMAIN old => new[p] = old[p]
      ELSE LET q == side[MaxOf(I)][2] IN
             IF q = 0 THEN p \notin DOMAIN new
             ELSE p \in DOMAIN new /\ new[p] = q

\* C11: the step that applies a delta updates the bid map by the "b"
\* entries alone and the ask map by the "a" entries alone: an entry
\* (price, 0) removes the price, an entry (price, q) sets its quantity to q
\* whatever it was, and no other price changes.
C11_LevelUpdateSemantics ==
  [][DeltaStep /\ book_update_id' # book_update_id =>
       /\ SideUpdated(bids, bids', l2_body'.b)
       /\ SideUpdated(asks, asks', l2_body'.a)
    ]_vars

\* C11 witness: the entry (10.0, 2) was applied to a bid side that holds a
\* second price, which keeps its quantity
C11_Witness ==
  /\ l2_body = [b |-> <<<<100, 2>>>>, a |-> <<>>]
  /\ bids = (100 :> 2 @@ 105 :> 1)
  /\ DOMAIN asks # {}
  /\ book_update_id = l2_u

C13_EveryFailureCountsResync ==
  [][/\ l2_pc \in {"start", "wait_first", "replay", "bridge", "live"}
     /\ l2_pc' \in {"start", "backoff"}
     /\ l2_pc' # l2_pc
     => /\ resync_count' = resync_count + 1
        /\ l2_pc' = "backoff"
    ]_vars

-----------------------------------------------------------------------------
(* Claims about every emit path, under SpecL3 *)

\* a published BookState: both sides non-empty, bids strictly descending
\* and asks strictly ascending in price, best_bid and best_ask the first
\* price of their side, at most n levels a side unless the full book is
\* emitted
WellFormedState(s, n, full) ==
  s # NoState =>
    /\ s.bids # <<>>
    /\ s.asks # <<>>
    /\ \A i \in 1..(Len(s.bids) - 1) : s.bids[i][1] > s.bids[i + 1][1]
    /\ \A i \in 1..(Len(s.asks) - 1) : s.asks[i][1] < s.asks[i + 1][1]
    /\ s.best_bid = s.bids[1][1]
    /\ s.best_ask = s.asks[1][1]
    /\ (~full => Len(s.bids) <= n /\ Len(s.asks) <= n)

\* C9 (as claimed): every BookState published by the L2 builder, the L3
\* builder or the L3 fallback poller is well formed.
C9_EveryEmitWellFormed ==
  /\ WellFormedState(l2_emitted, TopN, emit_full)
  /\ WellFormedState(l3_emitted, L3TopN, FALSE)

-----------------------------------------------------------------------------
(* Claims about the epochs of both builders, under SpecBuilders *)

\* the books _load_snapshot can leave
L2LoadedBooks ==
  {<<LoadSide(EmptyDict, snap.bids), LoadSide(EmptyDict, snap.asks),
     snap.lastUpdateId>> : snap \in Snapshots}

L3LoadedBooks ==
  {<<L3LoadSnapshot(snap).orders, L3LoadSnapshot(snap).levels, snap.sequence>> :
     snap \in L3Snapshots}

\* C14: from the start of an epoch until its snapshot is loaded the maps of
\* the builder are empty and its cursor is 0, whatever the epoch before left;
\* the step that loads the snapshot leaves the book of a snapshot loaded
\* into empty maps, with the cursor at the snapshot's.
C14_ResyncDiscardsState ==
  /\ [](/\ l2_pc = "wait_first"
             => bids = EmptyDict /\ asks = EmptyDict /\ book_update_id = 0
        /\ l3_pc = "fetch"
             => /\ orders = EmptyDict
                /\ levels = [buy |-> EmptyDict, sell |-> EmptyDict]
                /\ last_sequence = 0)
  /\ [][/\ l2_pc = "wait_first" /\ l2_pc' \in {"replay", "bridge"}
             => <<bids', asks', book_update_id'>> \in L2LoadedBooks
        /\ l3_pc = "fetch" /\ l3_pc' \in {"live", "done"}
             => <<orders', levels', last_sequence'>> \in L3LoadedBooks
       ]_vars

\* C14 witness: the L3 builder has loaded the snapshot of a second epoch
C14_Witness ==
  /\ l3_pc = "live"
  /\ l3_resync_count = 1
  /\ orders # EmptyDict
  /\ last_sequence \in L3SnapSeqs

\* C15: after the snapshot is loaded no step of the epoch lowers the cursor,
\* and a step that applies a delta or a message (the book changes, a
\* BookState is published, or the delta bridges) raises it.
C15_CursorMonotonic ==
  [][/\ l2_pc \in {"replay", "bridge", "live"}
          => /\ book_update_id' >= book_update_id
             /\ (\/ <<bids, asks>>' # <<bids, asks>>
                 \/ stop_evt' = stop_evt /\ l2_emitted' # NoState
                 \/ DeltaStep /\ Bridges(book_update_id, l2_U', l2_u'))
                  => book_update_id' > book_update_id
     /\ l3_pc = "live"
          => /\ last_sequence' >= last_sequence
             /\ (\/ <<orders, levels>>' # <<orders, levels>>
                 \/ stop_evt' = stop_evt /\ l3_emitted' # NoState)
                  => last_sequence' > last_sequence
    ]_vars

\* C15 witness: the L3 builder applied the message after its snapshot and
\* published the book
C15_Witness ==
  /\ l3_pc = "live"
  /\ last_sequence = 11
  /\ l3_emitted # NoState


-----------------------------------------------------------------------------
(* Claims about the L3 message handling (SpecL3Feed) *)

L3Book == [orders |-> orders, levels |-> levels]

\* the sides of the level map
L3Sides == {"buy", "sell"}

\* a pass of the live loop
L3LiveStep == l3_pc = "live" /\ l3_seq' \in FeedSeqs

\* a pass of the replay loop or of the live loop
L3FeedStep == l3_pc \in {"replay", "live"} /\ l3_seq' \in FeedSeqs

\* C16: in live consumption a message whose sequence is at most the cursor
\* is ignored (orders, levels and cursor unchanged, nothing published); a
\* message whose sequence is the cursor plus one is applied and the cursor
\* moves to it; a larger sequence is not applied and ends the epoch with a
\* resync.
C16_LiveSequencing ==
  [][L3LiveStep =>
       IF l3_seq' <= last_sequence
       THEN /\ UNCHANGED <<orders, levels, last_sequence, l3_resync_count>>
            /\ l3_emitted' = NoState
            /\ l3_pc' = "live"
       ELSE IF l3_seq' = last_sequence + 1
       THEN /\ l3_msg' \in L3Msgs
            /\ [orders |-> orders', levels |-> levels'] = ApplyMessage(L3Book, l3_msg')
            /\ last_sequence' = l3_seq'
            /\ l3_pc' = "live"
            /\ UNCHANGED l3_resync_count
       ELSE /\ UNCHANGED <<orders, levels, last_sequence>>
            /\ l3_emitted' = NoState
            /\ l3_pc' = "backoff"
            /\ l3_resync_count' = l3_resync_count + 1]_vars

\* a live gap: the book the epoch held is left as it was
C16_Witness ==
  /\ l3_pc = "backoff"
  /\ l3_buffered = 0
  /\ l3_seq > last_sequence + 1
  /\ l3_resync_count = 1
  /\ orders # EmptyDict

OrdersAt(side, price) ==
  {id \in DOMAIN orders : orders[id].side = side /\ orders[id].price = price}

\* every float the sizes of the orders ids can add up to, over the orders of
\* addition
RECURSIVE SizeSums(_)
SizeSums(ids) ==
  IF ids = {} THEN {FZero}
  ELSE UNION {{FAdd(x, orders[id].size) : x \in SizeSums(ids \ {id})} : id \in ids}

\* C18: after the snapshot load and any applied messages each level's
\* quantity is the sum of the sizes of the live orders at that side and
\* price, and a price is a level exactly when a live order rests there.
C18_LevelsMatchOrders ==
  l3_pc \in {"replay", "live", "backoff"} =>
    \A side \in L3Sides : \A price \in Prices :
      /\ price \in DOMAIN levels[side] <=> OrdersAt(side, price) # {}
      /\ price \in DOMAIN levels[side] =>
           levels[side][price] \in SizeSums(OrdersAt(side, price))

\* the order id rests with what a partial match of m left of size z
PartlyMatched(id, z, m) ==
  /\ l3_msg.type = "match"
  /\ l3_msg.order_id = id
  /\ l3_msg.size = m
  /\ 0 < m
  /\ m < z
  /\ id \in DOMAIN orders
  /\ orders[id].size = FSub(FloatOf(z), FloatOf(m))

\* C19: an order of size z that was matched for m < z and is then matched
\* for the remaining z - m is removed by that match, with no done message,
\* and its level is left with the other orders resting there (absent when
\* there is none).
C19_MatchOfRemainderRemoves ==
  [][\A id \in OrderIds : \A z \in Sizes : \A m \in Sizes :
       ( /\ L3FeedStep
         /\ PartlyMatched(id, z, m)
         /\ (z - m) \in Sizes
         /\ l3_msg' = Msg("match", id, l3_msg.side, l3_msg.price, z - m)
         /\ last_sequence' # last_sequence )
       => /\ id \notin DOMAIN orders'
          /\ LET side == orders[id].side
                 price == orders[id].price
             IN IF OrdersAt(side, price) = {id}
                THEN price \notin DOMAIN levels'[side]
                ELSE price \in DOMAIN levels'[side]]_vars

\* the message removes the live order it names
Removes(msg) ==
  /\ msg.order_id \in DOMAIN orders
  /\ \/ msg.type = "done"
     \/ msg.type = "match" /\ FLe(orders[msg.order_id].size, FloatOf(msg.size))
     \/ msg.type = "change" /\ FLe(FloatOf(msg.size), FZero)

\* C20: a done, a match for at least the remaining size and a change to a
\* size of zero or less each take the order out of the order map and
\* subtract its whole remaining size from its level (dropping the level when
\* nothing is left); the other orders and the other side are left alone.
C20_RemovalSubtractsRemaining ==
  [][(L3FeedStep /\ last_sequence' # last_sequence /\ Removes(l3_msg')) =>
       LET id == l3_msg'.order_id
           side == orders[id].side
           price == orders[id].price
           size == orders[id].size
           cur == DictGet(levels[side], price, FZero)
       IN /\ id \notin DOMAIN orders'
          /\ orders' = [o \in DOMAIN orders \ {id} |-> orders[o]]
          /\ \A sd \in L3Sides \ {side} : levels'[sd] = levels[sd]
          /\ \A p \in DOMAIN levels[side] \ {price} :
               p \in DOMAIN levels'[side] /\ levels'[side][p] = levels[side][p]
          /\ IF FLe(cur, size)
             THEN price \notin DOMAIN levels'[side]
             ELSE /\ price \in DOMAIN levels'[side]
                  /\ levels'[side][price] = FSub(cur, size)]_vars

\* a done took o1 (0.1) away from the level it shared with o2 (0.3)
C20_Witness ==
  /\ l3_msg.type = "done"
  /\ l3_msg.order_id = "o1"
  /\ "o1" \notin DOMAIN orders
  /\ "o2" \in DOMAIN orders
  /\ orders["o2"].side = "buy"
  /\ orders["o2"].price = 100
  /\ orders["o2"].size = FloatOf(3)
  /\ 100 \in DOMAIN levels["buy"]
  /\ levels["buy"][100] = FSub(FAdd(FloatOf(1), FloatOf(3)), FloatOf(1))


\* the step applies a change to a positive size for a live order
ChangesSize(msg) ==
  /\ msg.type = "change"
  /\ msg.order_id \in DOMAIN orders
  /\ FLt(FZero, FloatOf(msg.size))

\* C21: a change with new_size > 0 for a live order sets the order's size to
\* new_size and moves its level by new_size minus the old size (as floats);
\* the order's side and price, the other orders and the other levels are
\* left alone.
C21_ChangeAppliesDelta ==
  [][(L3FeedStep /\ last_sequence' # last_sequence /\ ChangesSize(l3_msg')) =>
       LET id == l3_msg'.order_id
           old == orders[id]
           new_size == FloatOf(l3_msg'.size)
           cur == DictGet(levels[old.side], old.price, FZero)
       IN /\ orders' = [orders EXCEPT ![id] = [side |-> old.side, price |-> old.price,
                                                size |-> new_size]]
          /\ \A sd \in L3Sides \ {old.side} : levels'[sd] = levels[sd]
          /\ DOMAIN levels'[old.side] = DOMAIN levels[old.side] \cup {old.price}
          /\ \A p \in DOMAIN levels[old.side] \ {old.price} :
               levels'[old.side][p] = levels[old.side][p]
          /\ IF FLe(old.size, new_size)
             THEN levels'[old.side][old.price] = FAdd(cur, FSub(new_size, old.size))
             ELSE /\ FLe(FSub(old.size, new_size), cur)
                  /\ levels'[old.side][old.price] = FSub(cur, FSub(old.size, new_size))]_vars

\* o1 went from 0.1 to 0.3 on the level it shares with o2 (0.4)
C21_Witness ==
  /\ l3_msg = Msg("change", "o1", "buy", 100, 3)
  /\ DOMAIN orders = {"o1", "o2"}
  /\ orders["o1"] = [side |-> "buy", price |-> 100, size |-> FloatOf(3)]
  /\ orders["o2"] = [side |-> "buy", price |-> 100, size |-> FloatOf(4)]
  /\ levels["buy"] = (100 :> FAdd(FAdd(FloatOf(1), FloatOf(4)),
                                  FSub(FloatOf(3), FloatOf(1))))


\* the message names no order of the order map: a received message, or a
\* match, done or change whose order id is not live
AffectsNoLiveOrder(msg) ==
  \/ msg.type = "received"
  \/ msg.type \in {"match", "done", "change"} /\ msg.order_id \notin DOMAIN orders

\* C40: a message that is applied and names no live order leaves the order
\* map and both sides' levels as they were, and the cursor moves to its
\* sequence.
C40_NoLiveOrderNoChange ==
  [][(L3FeedStep /\ last_sequence' # last_sequence /\ AffectsNoLiveOrder(l3_msg')) =>
       (orders' = orders /\ levels' = levels /\ last_sequence' = l3_seq')]_vars

\* a change for o2 was applied to a book whose only order is the bid o1
C40_Witness ==
  /\ l3_msg = Msg("change", "o2", "buy", 100, 3)
  /\ last_sequence = l3_seq
  /\ DOMAIN orders = {"o1"}
  /\ orders["o1"].side = "buy"
  /\ levels["buy"] = (orders["o1"].price :> orders["o1"].size)
  /\ levels["sell"] = EmptyDict


\* C22: after every message the L3 builder applies, in the replay loop and
\* in the live loop, it publishes a BookState of kind "L3" whenever both
\* sides have a level, and the l3_order_count of that state is the number of
\* orders in the order map at that moment.
C22_PublishWithOrderCount ==
  [][(L3FeedStep /\ last_sequence' # last_sequence
        /\ levels'["buy"] # EmptyDict /\ levels'["sell"] # EmptyDict) =>
       /\ l3_emitted' # NoState
       /\ l3_emitted'.venue = "coinbase"
       /\ l3_emitted'.kind = "L3"
       /\ l3_emitted'.l3_order_count = Cardinality(DOMAIN orders')]_vars

\* the state published after a done left two of three orders
C22_Witness ==
  /\ l3_msg = Msg("done", "o1", "buy", 100, 0)
  /\ DOMAIN orders = {"o2", "o3"}
  /\ l3_emitted # NoState
  /\ l3_emitted.kind = "L3"
  /\ l3_emitted.l3_order_count = 2


-----------------------------------------------------------------------------
(* Claims about the L3 fallback (SpecL3) *)

\* the L3 builder is inside _run_rest_only
InFallback == l3_pc \in {"rest_poll", "rest_sleep"}

\* the snapshot fetch of this step failed
SnapshotFails == l3_pc = "fetch" /\ snapshot_failures' # snapshot_failures

\* C23: a snapshot failure that reaches the retry budget with fallback
\* allowed takes the builder into the level-2 polling fallback; below the
\* budget, or with fallback disallowed, it ends the epoch with a counted
\* resync and a backoff. In fallback no stream message is applied, the order
\* map, the levels and the cursor stay as they are, and every state
\* published has kind "L2" and no order count.
C23_FallbackAfterBudget ==
  [][/\ SnapshotFails =>
          /\ snapshot_failures' = snapshot_failures + 1
          /\ IF allow_l2_fallback /\ snapshot_failures' >= FallbackAfter
             THEN /\ l3_pc' = "rest_poll"
                  /\ UNCHANGED l3_resync_count
             ELSE /\ l3_pc' = "backoff"
                  /\ l3_resync_count' = l3_resync_count + 1
     /\ (InFallback /\ stop_evt' = stop_evt) =>
          /\ l3_pc' \in {"rest_poll", "rest_sleep", "done"}
          /\ UNCHANGED <<orders, levels, last_sequence, l3_resync_count>>
          /\ l3_emitted' # NoState =>
               /\ l3_emitted'.kind = "L2"
               /\ l3_emitted'.l3_order_count = None]_vars

\* the fallback has published a level-2 state while stream messages wait
\* unread on event_q
C23_Witness ==
  /\ l3_pc = "rest_sleep"
  /\ allow_l2_fallback
  /\ snapshot_failures = FallbackAfter
  /\ l3_resync_count = FallbackAfter - 1
  /\ l3_event_q > 0
  /\ orders = EmptyDict
  /\ l3_emitted # NoState
  /\ l3_emitted.kind = "L2"
  /\ l3_emitted.l3_order_count = None


\* C39 (as claimed): a snapshot that is fetched and loaded restores the
\* retry budget: the count of failed fetches, which the fallback test
\* reads, is back at 0.
C39_LoadRestoresBudget ==
  [][(l3_pc = "fetch" /\ l3_pc' \in {"live", "done"}) => snapshot_failures' = 0]_vars

-----------------------------------------------------------------------------
(* Claims about the storage sink (SpecSink) *)

\* the rows of a list
RowsOf(df) == {df[i] : i \in 1..Len(df)}

KeysOf(df) == {RowKey(r) : r \in RowsOf(df)}

\* the rows of bucket b the sink has flushed, in the order it took them
FlushedRows(b) ==
  LET Test(r) == BucketStartMs(r.ts_ms) = b /\ r \notin RowsOf(writer_rows)
  IN SelectSeq(consumed, Test)

\* page is the union of the rows of df, with one row for each (ts_ms, venue),
\* ascending by ts_ms
IsMergeOf(page, df) ==
  /\ RowsOf(page) \subseteq RowsOf(df)
  /\ KeysOf(page) = KeysOf(df)
  /\ \A i, j \in 1..Len(page) : RowKey(page[i]) = RowKey(page[j]) => i = j
  /\ IsSortedByTs(page)

\* C24: after two successive batches were written and flushed into one
\* bucket, the bucket's page is the union of the rows of both, with one row
\* for each (ts_ms, venue), ascending by ts_ms.
C24_MergeRoundTrip ==
  \A b \in DOMAIN pages :
    (b \in DOMAIN flushes /\ flushes[b] >= 2) => IsMergeOf(pages[b], FlushedRows(b))

\* two flushes into bucket 0: the later row with ts_ms 0 went before the
\* earlier row with ts_ms 1, and the second row with ts_ms 1 was dropped
C24_Witness ==
  /\ 0 \in DOMAIN pages
  /\ 0 \in DOMAIN flushes
  /\ flushes[0] = 2
  /\ writer_rows = <<>>
  /\ Len(consumed) = 3
  /\ consumed[1].ts_ms = 1
  /\ consumed[2].ts_ms = 0
  /\ RowKey(consumed[3]) = RowKey(consumed[1])
  /\ pages[0] = <<consumed[2], consumed[1]>>

\* C25: the page of a bucket does not depend on how its rows were split
\* across flushes: it is the page one flush of the same rows into the empty
\* bucket leaves.
C25_SplitIndependent ==
  \A b \in DOMAIN pages :
    \E pgs \in Flush(FlushedRows(b), b, EmptyDict) : pages[b] = pgs[b]


\* C26: the periodic flush does not wait for an event or a rollover: rows
\* that are in the writer's buffer when the flush period has passed since
\* the last flush are eventually written to their page.
C26_BufferedRowsEventuallyFlushed ==
  (writer_rows # <<>> /\ now - last_flush >= FlushSec) ~> (writer_rows = <<>>)

\* row r is in the page of its bucket
InPage(r) ==
  /\ BucketStartMs(r.ts_ms) \in DOMAIN pages
  /\ RowKey(r) \in KeysOf(pages[BucketStartMs(r.ts_ms)])

\* C27: once shutdown has completed the writer's buffer is empty and every
\* row the sink took from the bus is in a page.
C27_FinalFlush ==
  sink_pc = "cancelled" =>
    /\ writer_rows = <<>>
    /\ \A r \in RowsOf(consumed) : InPage(r)


C32_WriteFailurePropagates ==
  /\ [](sink_fault = "write" => sink_pc = "raised")
  /\ (sink_fault = "write") ~> (stop_evt /\ \A v \in StreamVenues : st_pc[v] = "done")

\* a rollover flush failed to write with a row in the buffer, and the
\* orchestrator has stopped everything
C32_Witness ==
  /\ sink_fault = "write"
  /\ sink_pc = "raised"
  /\ writer_rows # <<>>
  /\ bucket_ms = 0
  /\ Len(consumed) = 3
  /\ stop_evt
  /\ \A v \in StreamVenues : st_pc[v] = "done"

\* no two rows of df have the same (ts_ms, venue)
NoDuplicateKeys(df) ==
  \A i, j \in 1..Len(df) : RowKey(df[i]) = RowKey(df[j]) => i = j

\* C34 (as claimed): every page, whichever flush wrote it, has one row for
\* each (ts_ms, venue) and is ascending by ts_ms.
C34_PageDedupedSorted ==
  \A b \in DOMAIN pages : NoDuplicateKeys(pages[b]) /\ IsSortedByTs(pages[b])

\* C36 (as claimed): a step of the sink leaves in every page each
\* (ts_ms, venue) that was in it, and puts there each (ts_ms, venue) of the
\* rows it flushed, also when read_parquet fails.
C36_FlushKeepsPersisted ==
  [][/\ \A b \in DOMAIN pages :
          b \in DOMAIN pages' /\ KeysOf(pages[b]) \subseteq KeysOf(pages'[b])
     /\ (writer_rows' = <<>> /\ sink_pc' = "next")
          => \A r \in RowsOf(writer_rows) :
               /\ BucketStartMs(r.ts_ms) \in DOMAIN pages'
               /\ RowKey(r) \in KeysOf(pages'[BucketStartMs(r.ts_ms)])]_vars

\* C37: every row of the buffer is of the writer's current bucket, every row
\* of a page is of the page's bucket, and when the current bucket changes
\* the rows that were in the buffer are in the page of the old bucket.
C37_BucketInvariant ==
  /\ [](\A r \in RowsOf(writer_rows) : BucketStartMs(r.ts_ms) = bucket_ms)
  /\ [](\A b \in DOMAIN pages : \A r \in RowsOf(pages[b]) : BucketStartMs(r.ts_ms) = b)
  /\ [][(bucket_ms # NoBucket /\ bucket_ms' # bucket_ms)
          => \A r \in RowsOf(writer_rows) :
               /\ bucket_ms \in DOMAIN pages'
               /\ RowKey(r) \in KeysOf(pages'[bucket_ms])]_vars

\* the first row was flushed by the timer, the second waited in the buffer
\* and was flushed when the third, of the next bucket, arrived
C37_Witness ==
  /\ Len(consumed) = 3
  /\ last_flush = StartTime
  /\ 0 \in DOMAIN pages
  /\ RowsOf(pages[0]) = {consumed[1], consumed[2]}
  /\ bucket_ms = Window
  /\ writer_rows = <<consumed[3]>>

-----------------------------------------------------------------------------
(* Claims about the L2 builder on a contiguous stream (SpecL2Contiguous) *)

\* C38: on a contiguous stream that starts at first_u, with a snapshot that
\* is not older than first_u, no message read in the replay, in the wait for
\* the bridging delta or in the live loop raises the gap, every message that
\* ends past the cursor is applied when it is read, and every other message
\* leaves the book and the cursor alone.
C38_NoSpuriousResync ==
  [][(l2_pc \in {"replay", "bridge", "live"}) =>
       (/\ l2_pc' # "backoff"
        /\ resync_count' = resync_count
        /\ l2_u' > book_update_id =>
             (/\ book_update_id' = l2_u'
              /\ bids' = ApplySide(bids, l2_body'.b)
              /\ asks' = ApplySide(asks, l2_body'.a))
        /\ l2_u' <= book_update_id =>
             (bids' = bids /\ asks' = asks /\ book_update_id' = book_update_id))]_vars

\* the snapshot was at 100 or 101, the buffered delta 101..105 overlapped it
\* and was applied, and the delta 106..110 after it was applied live
C38_Witness ==
  /\ l2_pc = "live"
  /\ resync_count = 0
  /\ l2_U = 106
  /\ l2_u = 110
  /\ book_update_id = 110
  /\ applied

-----------------------------------------------------------------------------
(* Claims about the publishes of a builder (SpecBus) *)

\* the events the builder has emitted whose publish has not completed
OutstandingPublishes == emit_seq - Len(completed)

\* C33 (as claimed): the builder awaits each publish, so at most one of its
\* publishes is outstanding at any moment.
C33_PublishAwaited == OutstandingPublishes <= 1

-----------------------------------------------------------------------------
(* Claims about the event loop (SpecLoop) *)

\* bus.next() has an event for the sink
SinkReady == sink_pc = "next" /\ sink_q > 0 /\ ~stop_evt

\* C35 (as claimed): while a builder fetches a snapshot the other tasks can
\* take their steps: the sink when the bus has an event for it, the other
\* builder when its backoff sleep is over.
C35_FetchIsSuspensionPoint ==
  \A v \in StreamVenues :
    st_pc[v] = "fetch" =>
      /\ SinkReady => ENABLED LoopSinkRun
      /\ (\E w \in StreamVenues \ {v} :
            st_pc[w] = "backoff" /\ st_resync[w] <= MaxStreamResync)
           => ENABLED LoopBackoff

-----------------------------------------------------------------------------
(* Claims about the builder tasks and their receivers (SpecStream) *)

\* C28: an error raised inside a builder's connection epoch, on the
\* builder's task or in the receiver of the epoch, is turned into a new
\* epoch: the builder comes back to the loop test of start.
C28_ErrorBecomesNewEpoch ==
  \A v \in StreamVenues :
    (st_rx[v] = "raised" \/ (st_pc[v] = "backoff" /\ st_resync[v] <= MaxStreamResync))
      ~> (st_pc[v] = "start")

\* C29: a malformed frame is skipped on its own: the receiver that reads it
\* keeps running, and the builder that meets it on event_q stays in its
\* epoch with its receiver.
C29_MalformedSkipped ==
  [][\A v \in StreamVenues :
       /\ (st_nframes'[v] = st_nframes[v] + 1 /\ st_frame'[v] \in Malformed)
            => st_rx'[v] = "running"
       /\ (st_pc[v] = "get" /\ st_q[v] # <<>> /\ Head(st_q[v]) \in Malformed
             /\ st_q'[v] # st_q[v] /\ stop_evt' = stop_evt)
            => (st_pc'[v] = "get" /\ st_rx'[v] = st_rx[v])]_vars

\* C30: when the stream of an epoch has ended, the builder eventually gives
\* the epoch up with a counted resync.
C30_DisconnectRetried ==
  \A v \in StreamVenues :
    (st_rx[v] = "ended") ~> (st_pc[v] = "backoff" /\ st_resync[v] > 0)

=============================================================================
